---- MODULE Spec2Model ----
(***************************************************************************)
(* Model of the CSV email validator (api/validate-csv.js, latest revision):*)
(* sanitizeEmail, validateEmailFormat, getDomain, processCSV,              *)
(* checkMXRecords, validateEmails and the serverless handler.              *)
(*                                                                         *)
(* A JavaScript string is modelled as a sequence of one-character strings, *)
(* so that split, trim, replace, includes and the regular expressions are  *)
(* computed character by character as the code computes them.              *)
(***************************************************************************)
EXTENDS Integers, Sequences, FiniteSets, TLC

\* ------------------------------------------------------------ constants
MAX_EMAIL_LENGTH == 254
MAX_LOCAL_PART_LENGTH == 64
maxEmails == 300
DNS_TIMEOUT_MS == 5000

\* ValidationStatus (the status codes of the source)
SUCCESS == "Success"
SERVER_IS_CATCH_ALL == "ServerIsCatchAll"
AT_SIGN_NOT_FOUND == "AtSignNotFound"
DNS_CONNECTION_FAILURE == "DnsConnectionFailure"
DNS_QUERY_TIMEOUT == "DnsQueryTimeout"
DOMAIN_DOES_NOT_EXIST == "DomainDoesNotExist"
DOMAIN_IS_MISCONFIGURED == "DomainIsMisconfigured"
DOMAIN_HAS_NULL_MX == "DomainHasNullMx"
DOMAIN_PART_COMPLIANCY_FAILURE == "DomainPartCompliancyFailure"
DOUBLE_DOT_SEQUENCE == "DoubleDotSequence"
INVALID_ADDRESS_LENGTH == "InvalidAddressLength"
INVALID_CHARACTER_IN_SEQUENCE == "InvalidCharacterInSequence"
INVALID_LOCAL_PART_LENGTH == "InvalidLocalPartLength"
UNHANDLED_EXCEPTION == "UnhandledException"
DUPLICATE == "Duplicate"
CATCH_ALL_VALIDATION_TIMEOUT == "CatchAllValidationTimeout"

\* JavaScript null where a status is expected (validateEmailFormat's "no error")
null == "null"

\* ------------------------------------------------------------ characters
LowerSeq == <<"a","b","c","d","e","f","g","h","i","j","k","l","m",
              "n","o","p","q","r","s","t","u","v","w","x","y","z">>
UpperSeq == <<"A","B","C","D","E","F","G","H","I","J","K","L","M",
              "N","O","P","Q","R","S","T","U","V","W","X","Y","Z">>
DigitSeq == <<"0","1","2","3","4","5","6","7","8","9">>
Range(s) == {s[i] : i \in DOMAIN s}
UpperChars == Range(UpperSeq)
AlphaNum == Range(LowerSeq) \cup Range(UpperSeq) \cup Range(DigitSeq)

\* the characters String.prototype.trim removes (those of the model's alphabet)
Whitespace == {" ", "\t", "\r", "\n"}

\* /[<>"';\\]/
DangerousChars == {"<", ">", "\"", "'", ";", "\\"}
\* /[\r\n\t]/
ControlChars == {"\r", "\n", "\t"}
\* /^[a-zA-Z0-9._+-]+$/
LocalPartChars == AlphaNum \cup {".", "_", "+", "-"}
\* /^[a-zA-Z0-9.-]+$/
DomainChars == AlphaNum \cup {".", "-"}

\* ------------------------------------------------------------ string helpers
\* String.prototype.trim
trim(s) ==
  LET keep == {i \in DOMAIN s : s[i] \notin Whitespace}
  IN  IF keep = {} THEN <<>>
      ELSE LET lo == CHOOSE i \in keep : \A j \in keep : i <= j
               hi == Len(s) - (CHOOSE k \in 0..(Len(s) - 1) :
                                 /\ s[Len(s) - k] \notin Whitespace
                                 /\ \A m \in 0..(k - 1) : s[Len(s) - m] \in Whitespace)
           IN  SubSeq(s, lo, hi)

\* s.replace(/[set]/g, '')
replaceAll(s, set) == SelectSeq(s, LAMBDA c : c \notin set)

\* one character of String.prototype.toLowerCase
LowerChar(c) ==
  IF c \in UpperChars
  THEN LowerSeq[CHOOSE i \in DOMAIN UpperSeq : UpperSeq[i] = c]
  ELSE c

\* variant: the case is kept
toLowerCaseKeepsCase(s) == s

\* String.prototype.toLowerCase
toLowerCase(s) == [i \in DOMAIN s |-> LowerChar(s[i])]

\* s.split(c): the pieces between the occurrences of c, one more than there
\* are occurrences
split(s, c) ==
  LET seps == {i \in DOMAIN s : s[i] = c}
      n == Cardinality(seps)
      pos(k) == CHOOSE i \in seps : Cardinality({j \in seps : j < i}) = k - 1
  IN  [k \in 1..(n + 1) |->
         SubSeq(s, IF k = 1 THEN 1 ELSE pos(k - 1) + 1,
                   IF k = n + 1 THEN Len(s) ELSE pos(k) - 1)]

\* (s.match(/c/g) || []).length
matchCount(s, c) == Cardinality({i \in DOMAIN s : s[i] = c})

\* s.includes('..')
includesDoubleDot(s) == \E i \in 1..(Len(s) - 1) : s[i] = "." /\ s[i + 1] = "."

\* /^[set]+$/.test(s)
regexTest(s, set) == Len(s) >= 1 /\ \A i \in DOMAIN s : s[i] \in set

startsWith(s, c) == Len(s) >= 1 /\ s[1] = c
endsWith(s, c) == Len(s) >= 1 /\ s[Len(s)] = c

\* ------------------------------------------------------------ sanitizeEmail
\* variant: trimmed first, stripped afterwards
sanitizeEmailTrimFirst(email) ==
  IF email = <<>> THEN <<>>
  ELSE replaceAll(replaceAll(trim(email), DangerousChars), ControlChars)

\* sanitizeEmail for a string argument
sanitizeEmail(email) ==
  IF email = <<>> THEN <<>>
  ELSE trim(replaceAll(replaceAll(email, DangerousChars), ControlChars))

\* A JavaScript value: its typeof and, for a string, its characters
JsString(s) == [type |-> "string", chars |-> s]
JsNull == [type |-> "object", chars |-> <<"n","u","l","l">>]
JsUndefined == [type |-> "undefined", chars |-> <<>>]
JsNumber(digits) == [type |-> "number", chars |-> digits]
JsObject == [type |-> "object", chars |-> <<"{","}">>]

\* sanitizeEmail for any argument: "if (!email || typeof email !== 'string')"
\* ('' is the only string that is falsy)
sanitizeEmailValue(value) ==
  IF value.type # "string" THEN <<>>
  ELSE sanitizeEmail(value.chars)

\* ------------------------------------------------------------ validateEmailFormat
\* variant: the length test placed before the '@' count
validateEmailFormatLengthFirst(email) ==
  IF email = <<>> THEN INVALID_CHARACTER_IN_SEQUENCE
  ELSE IF Len(email) > MAX_EMAIL_LENGTH THEN INVALID_ADDRESS_LENGTH
  ELSE IF matchCount(email, "@") = 0 THEN AT_SIGN_NOT_FOUND
  ELSE IF matchCount(email, "@") > 1 THEN INVALID_CHARACTER_IN_SEQUENCE
  ELSE IF includesDoubleDot(email) THEN DOUBLE_DOT_SEQUENCE
  ELSE LET parts == split(email, "@")
           localPart == parts[1]
           domainPart == parts[2] IN
      IF Len(localPart) = 0 THEN INVALID_LOCAL_PART_LENGTH
      ELSE IF Len(localPart) > MAX_LOCAL_PART_LENGTH THEN INVALID_LOCAL_PART_LENGTH
      ELSE IF ~regexTest(localPart, LocalPartChars) THEN INVALID_CHARACTER_IN_SEQUENCE
      ELSE IF startsWith(localPart, ".") \/ endsWith(localPart, ".")
           THEN INVALID_CHARACTER_IN_SEQUENCE
      ELSE IF Len(domainPart) = 0 THEN DOMAIN_PART_COMPLIANCY_FAILURE
      ELSE IF "." \notin Range(domainPart) THEN DOMAIN_PART_COMPLIANCY_FAILURE
      ELSE IF ~regexTest(domainPart, DomainChars) THEN DOMAIN_PART_COMPLIANCY_FAILURE
      ELSE IF startsWith(domainPart, ".") \/ endsWith(domainPart, ".")
              \/ startsWith(domainPart, "-") \/ endsWith(domainPart, "-")
           THEN DOMAIN_PART_COMPLIANCY_FAILURE
      ELSE null

validateEmailFormat(email) ==
  IF email = <<>> THEN INVALID_CHARACTER_IN_SEQUENCE
  ELSE IF matchCount(email, "@") = 0 THEN AT_SIGN_NOT_FOUND
  ELSE IF matchCount(email, "@") > 1 THEN INVALID_CHARACTER_IN_SEQUENCE
  ELSE IF Len(email) > MAX_EMAIL_LENGTH THEN INVALID_ADDRESS_LENGTH
  ELSE IF includesDoubleDot(email) THEN DOUBLE_DOT_SEQUENCE
  ELSE LET parts == split(email, "@") IN
    IF Len(parts) # 2 THEN AT_SIGN_NOT_FOUND
    ELSE LET localPart == parts[1]
             domainPart == parts[2] IN
      IF Len(localPart) = 0 THEN INVALID_LOCAL_PART_LENGTH
      ELSE IF Len(localPart) > MAX_LOCAL_PART_LENGTH THEN INVALID_LOCAL_PART_LENGTH
      ELSE IF ~regexTest(localPart, LocalPartChars) THEN INVALID_CHARACTER_IN_SEQUENCE
      ELSE IF startsWith(localPart, ".") \/ endsWith(localPart, ".")
           THEN INVALID_CHARACTER_IN_SEQUENCE
      ELSE IF Len(domainPart) = 0 THEN DOMAIN_PART_COMPLIANCY_FAILURE
      ELSE IF "." \notin Range(domainPart) THEN DOMAIN_PART_COMPLIANCY_FAILURE
      ELSE IF ~regexTest(domainPart, DomainChars) THEN DOMAIN_PART_COMPLIANCY_FAILURE
      ELSE IF startsWith(domainPart, ".") \/ endsWith(domainPart, ".")
              \/ startsWith(domainPart, "-") \/ endsWith(domainPart, "-")
           THEN DOMAIN_PART_COMPLIANCY_FAILURE
      ELSE null

\* ------------------------------------------------------------ getDomain
\* null and the empty string are both falsy in the caller's test (!domain);
\* the model writes both as the empty sequence.
getDomain(email) ==
  IF email = <<>> THEN <<>>
  ELSE LET parts == split(email, "@") IN
    IF Len(parts) # 2 THEN <<>>
    ELSE parts[2]

\* ------------------------------------------------------------ processCSV
\* lines is csvContent.split(/\r?\n/). The body of the loop for one line: the
\* emails list after it (seenEmails holds exactly the elements of emails).
\* variant: a malformed line is dropped instead of kept (the behaviour of the
\* earlier revision of processCSV)
processLineSkipMalformed(line, emails) ==
  LET normalized == toLowerCase(sanitizeEmail(trim(line)))
  IN  IF normalized = <<>> THEN emails
      ELSE IF validateEmailFormat(normalized) # null THEN emails
      ELSE IF normalized \in Range(emails) THEN emails
      ELSE Append(emails, normalized)

\* variant: no test of the sanitized line
processLineKeepEmptied(line, emails) ==
  LET trimmed == trim(line)
      sanitized == sanitizeEmail(trimmed)
      normalized == toLowerCase(sanitized)
  IN  IF trimmed = <<>> THEN emails
      ELSE IF normalized \in Range(emails) THEN emails
      ELSE Append(emails, normalized)

\* variant: no seenEmails test
processLineKeepDuplicates(line, emails) ==
  LET trimmed == trim(line)
      sanitized == sanitizeEmail(trimmed)
      normalized == toLowerCase(sanitized)
  IN  IF trimmed = <<>> THEN emails
      ELSE IF sanitized = <<>> THEN emails
      ELSE Append(emails, normalized)

processLine(line, emails) ==
  LET trimmed == trim(line)
      sanitized == sanitizeEmail(trimmed)
      normalized == toLowerCase(sanitized)
  IN  IF trimmed = <<>> THEN emails
      ELSE IF sanitized = <<>> THEN emails
      ELSE IF normalized \in Range(emails) THEN emails
      ELSE Append(emails, normalized)

\* the loop over lines[lo..hi], in order. The range is halved, and the first
\* half's result is evaluated (left = left) before the second half starts, to
\* keep the evaluation shallow; the lines are still visited from first to last.
RECURSIVE processLines(_, _, _, _)
processLines(lines, lo, hi, emails) ==
  IF lo > hi THEN emails
  ELSE IF lo = hi THEN processLine(lines[lo], emails)
  ELSE LET mid == (lo + hi) \div 2
           left == processLines(lines, lo, mid, emails)
       IN  IF left = left THEN processLines(lines, mid + 1, hi, left) ELSE left

processCSV(lines) == processLines(lines, 1, Len(lines), <<>>)

\* ------------------------------------------------------------ Map
\* A JavaScript Map: a sequence of [key, value] entries in insertion order.
MapHas(m, k) == \E i \in DOMAIN m : m[i].key = k
MapGet(m, k) == m[CHOOSE i \in DOMAIN m : m[i].key = k].value
MapSet(m, k, v) ==
  IF MapHas(m, k)
  THEN [i \in DOMAIN m |-> IF m[i].key = k THEN [key |-> k, value |-> v] ELSE m[i]]
  ELSE Append(m, [key |-> k, value |-> v])
MapKeys(m) == [i \in DOMAIN m |-> m[i].key]

\* emails.slice(0, maxEmails)
slice(emails, n) == SubSeq(emails, 1, IF Len(emails) < n THEN Len(emails) ELSE n)

\* ------------------------------------------------------------ validateEmails
\* if (!domainMap.has(domain)) domainMap.set(domain, []); domainMap.get(domain).push(email)
\* variant: a new group for every email, without the has() test
groupByDomainNoDedup(domainMap, domain, email) ==
  Append(domainMap, [key |-> domain, value |-> <<email>>])

groupByDomain(domainMap, domain, email) ==
  LET dm == IF ~MapHas(domainMap, domain) THEN MapSet(domainMap, domain, <<>>)
            ELSE domainMap
  IN  MapSet(dm, domain, Append(MapGet(dm, domain), email))

\* First pass, one email: its format status, or its grouping by domain.
\* acc is [statusMap, domainMap].
\* variant: no "continue" after a format failure, the email is grouped as well
firstPassStepNoShortCircuit(email, acc) ==
  LET formatStatus == validateEmailFormat(email)
      domain == getDomain(email)
      withStatus == IF formatStatus # null
                    THEN [acc EXCEPT !.statusMap = MapSet(@, email, formatStatus)]
                    ELSE acc
  IN  IF domain = <<>>
      THEN [withStatus EXCEPT
              !.statusMap = MapSet(@, email, DOMAIN_PART_COMPLIANCY_FAILURE)]
      ELSE [withStatus EXCEPT !.domainMap = groupByDomain(@, domain, email)]

firstPassStep(email, acc) ==
  LET formatStatus == validateEmailFormat(email)
      domain == getDomain(email)
  IN  IF formatStatus # null
      THEN [acc EXCEPT !.statusMap = MapSet(@, email, formatStatus)]
      ELSE IF domain = <<>>
      THEN [acc EXCEPT !.statusMap = MapSet(@, email, DOMAIN_PART_COMPLIANCY_FAILURE)]
      ELSE [acc EXCEPT !.domainMap = groupByDomain(@, domain, email)]

RECURSIVE firstPassLoop(_, _, _, _)
firstPassLoop(list, lo, hi, acc) ==
  IF lo > hi THEN acc
  ELSE IF lo = hi THEN firstPassStep(list[lo], acc)
  ELSE LET mid == (lo + hi) \div 2
           left == firstPassLoop(list, lo, mid, acc)
       IN  IF left = left THEN firstPassLoop(list, mid + 1, hi, left) ELSE left

firstPass(list) ==
  firstPassLoop(list, 1, Len(list), [statusMap |-> <<>>, domainMap |-> <<>>])

\* Third pass, one email: untouched when it has a format status, otherwise the
\* status of its domain's result
thirdPassStep(email, statusMap, validation) ==
  LET domain == getDomain(email)
  IN  IF MapHas(statusMap, email) THEN statusMap
      ELSE IF MapHas(validation, domain)
      THEN MapSet(statusMap, email, MapGet(validation, domain))
      ELSE MapSet(statusMap, email, UNHANDLED_EXCEPTION)

RECURSIVE thirdPassLoop(_, _, _, _, _)
thirdPassLoop(list, lo, hi, statusMap, validation) ==
  IF lo > hi THEN statusMap
  ELSE IF lo = hi THEN thirdPassStep(list[lo], statusMap, validation)
  ELSE LET mid == (lo + hi) \div 2
           left == thirdPassLoop(list, lo, mid, statusMap, validation)
       IN  IF left = left THEN thirdPassLoop(list, mid + 1, hi, left, validation)
           ELSE left

thirdPass(list, statusMap, validation) ==
  thirdPassLoop(list, 1, Len(list), statusMap, validation)

passStatuses == {SUCCESS, SERVER_IS_CATCH_ALL}

failStatuses ==
  {AT_SIGN_NOT_FOUND, DNS_CONNECTION_FAILURE, DNS_QUERY_TIMEOUT,
   DOMAIN_DOES_NOT_EXIST, DOMAIN_IS_MISCONFIGURED, DOMAIN_HAS_NULL_MX,
   DOMAIN_PART_COMPLIANCY_FAILURE, DOUBLE_DOT_SEQUENCE, INVALID_ADDRESS_LENGTH,
   INVALID_CHARACTER_IN_SEQUENCE, INVALID_LOCAL_PART_LENGTH, UNHANDLED_EXCEPTION}

\* the three branches of the counting loop: which counter is incremented and
\* the valid flag of the pushed entry
\* variant: DomainHasNullMx taken for a pass status
countBranchNullMxPasses(status) ==
  IF status \in passStatuses \cup {DOMAIN_HAS_NULL_MX}
  THEN [valid |-> TRUE, counted |-> "valid"]
  ELSE [valid |-> FALSE, counted |-> "invalid"]

countBranch(status) ==
  IF status \in passStatuses THEN [valid |-> TRUE, counted |-> "valid"]
  ELSE IF status \in failStatuses THEN [valid |-> FALSE, counted |-> "invalid"]
  ELSE [valid |-> FALSE, counted |-> "invalid"]

\* variant: the counting loop iterates over the keys of emailStatusMap
countLoopOrderByStatusMap(emailsToValidate, statusMap) == MapKeys(statusMap)

\* the emails the counting loop iterates over
countLoopOrder(emailsToValidate, statusMap) == emailsToValidate

\* emailStatusMap.get(email) || UNHANDLED_EXCEPTION
statusOf(statusMap, email) ==
  IF MapHas(statusMap, email) THEN MapGet(statusMap, email) ELSE UNHANDLED_EXCEPTION

\* the counting loop, one email. acc is [validCount, invalidCount, emailResults].
countStep(email, statusMap, acc) ==
  LET status == statusOf(statusMap, email)
      b == countBranch(status)
  IN  [validCount |-> acc.validCount + (IF b.counted = "valid" THEN 1 ELSE 0),
       invalidCount |-> acc.invalidCount + (IF b.counted = "invalid" THEN 1 ELSE 0),
       emailResults |-> Append(acc.emailResults,
                          [email |-> email, status |-> status, valid |-> b.valid])]

RECURSIVE countLoop(_, _, _, _, _)
countLoop(order, lo, hi, statusMap, acc) ==
  IF lo > hi THEN acc
  ELSE IF lo = hi THEN countStep(order[lo], statusMap, acc)
  ELSE LET mid == (lo + hi) \div 2
           left == countLoop(order, lo, mid, statusMap, acc)
       IN  IF left = left THEN countLoop(order, mid + 1, hi, statusMap, left)
           ELSE left

\* Numbers are exact rationals <<numerator, denominator>> in lowest terms.
RECURSIVE gcd(_, _)
gcd(a, b) == IF b = 0 THEN a ELSE gcd(b, a % b)
Rat(a, b) == LET g == gcd(a, b) IN IF g = 0 THEN <<0, 1>> ELSE <<a \div g, b \div g>>
RatDiv(a, b) == Rat(a, b)
RatMul(r, k) == Rat(r[1] * k, r[2])

\* variant: the fraction, not multiplied by 100
percentageAsFraction(validCount, total) ==
  IF total > 0 THEN RatDiv(validCount, total) ELSE <<0, 1>>

\* total > 0 ? (validCount / total) * 100 : 0
percentageOf(validCount, total) ==
  IF total > 0 THEN RatMul(RatDiv(validCount, total), 100) ELSE <<0, 1>>

\* const total = validCount + invalidCount
totalOf(validCount, invalidCount) == validCount + invalidCount

\* the object validateEmails returns
report(emails, emailsToValidate, statusMap) ==
  LET order == countLoopOrder(emailsToValidate, statusMap)
      c == countLoop(order, 1, Len(order), statusMap,
                     [validCount |-> 0, invalidCount |-> 0, emailResults |-> <<>>])
      total == totalOf(c.validCount, c.invalidCount)
  IN  [total |-> total,
       valid |-> c.validCount,
       invalid |-> c.invalidCount,
       percentage |-> percentageOf(c.validCount, total),
       skipped |-> Len(emails) - Len(emailsToValidate),
       emails |-> c.emailResults]

\* ------------------------------------------------------------ checkMXRecords
\* What dns.resolveMx(domain) can settle with: a list of n records, or an error.
pending == [kind |-> "pending", n |-> 0, code |-> ""]
Records(n) == [kind |-> "records", n |-> n, code |-> ""]
Rejected(code) == [kind |-> "error", n |-> 0, code |-> code]
LookupOutcomes ==
  {Records(0), Records(1), Rejected("ENOTFOUND"), Rejected("ENODATA"),
   Rejected("ECONNREFUSED")}

\* variant: a server failure is reported as a misconfigured domain
dnsStatusMisconfigured(outcome) ==
  IF outcome.kind = "records"
  THEN IF outcome.n = 0 THEN DOMAIN_HAS_NULL_MX ELSE SUCCESS
  ELSE IF outcome.code = "ENOTFOUND" \/ outcome.code = "ENODATA"
       THEN DOMAIN_DOES_NOT_EXIST
       ELSE DOMAIN_IS_MISCONFIGURED

\* variant: only ENOTFOUND is taken for a missing domain
dnsStatusNotFoundOnly(outcome) ==
  IF outcome.kind = "records"
  THEN IF outcome.n = 0 THEN DOMAIN_HAS_NULL_MX ELSE SUCCESS
  ELSE IF outcome.code = "ENOTFOUND" THEN DOMAIN_DOES_NOT_EXIST
       ELSE DNS_CONNECTION_FAILURE

\* dnsPromise: the .then / .catch mapping of the lookup's outcome
dnsStatus(outcome) ==
  IF outcome.kind = "records"
  THEN IF outcome.n = 0 THEN DOMAIN_HAS_NULL_MX ELSE SUCCESS
  ELSE IF outcome.code = "ENOTFOUND" \/ outcome.code = "ENODATA"
       THEN DOMAIN_DOES_NOT_EXIST
       ELSE DNS_CONNECTION_FAILURE

\* variant: the timeout does not settle the race
promiseRaceWithoutTimeout(current, settled) ==
  IF current = "pending" /\ settled # DNS_QUERY_TIMEOUT THEN settled ELSE current

\* variant: a shared result cell that every racer writes
promiseRaceLastWins(current, settled) == settled

\* Promise.race: the promise takes the value of the first racer to settle
promiseRace(current, settled) == IF current = "pending" THEN settled ELSE current

\* ------------------------------------------------------------ handler
EMAIL_LIMIT == 300
\* variant: >= instead of >
exceedsLimitOffByOne(emails) == Len(emails) >= EMAIL_LIMIT

\* variant: no limit in the handler, validateEmails is left to truncate
exceedsLimitNever(emails) == FALSE

\* if (emails.length > 300)
exceedsLimit(emails) == Len(emails) > EMAIL_LIMIT

NoEmailsError == "No valid email addresses found in file"
LimitError == "File exceeds 300 email limit"

ErrorResponse(status, message) == [status |-> status, error |-> message, body |-> <<>>]
JsonResponse(status, body) == [status |-> status, error |-> "", body |-> <<body>>]

\* res.status(200).end(): a status and no body
EndResponse(status) == [status |-> status, error |-> "", body |-> <<>>]

MethodNotAllowedError == "Method not allowed"

\* the headers of every response
CorsHeaders ==
  { <<"Access-Control-Allow-Origin", "*">>,
    <<"Access-Control-Allow-Methods", "POST, OPTIONS">>,
    <<"Access-Control-Allow-Headers", "Content-Type">> }

ContentTypeHeader == <<"Content-Type", "application/json">>

SecurityHeaders ==
  { <<"X-Content-Type-Options", "nosniff">>,
    <<"X-Frame-Options", "DENY">>,
    <<"X-XSS-Protection", "1; mode=block">>,
    <<"Referrer-Policy", "strict-origin-when-cross-origin">>,
    <<"Content-Security-Policy", "default-src 'none'; frame-ancestors 'none'">> }

\* variant: the security headers are not set
setHeadersCorsOnly(h) ==
  {x \in h : x[1] \notin {y[1] : y \in CorsHeaders \cup {ContentTypeHeader}}}
    \cup CorsHeaders \cup {ContentTypeHeader}

\* the nine res.setHeader calls the handler begins with
setHeaders(h) ==
  LET new == CorsHeaders \cup {ContentTypeHeader} \cup SecurityHeaders
  IN  {x \in h : x[1] \notin {y[1] : y \in new}} \cup new

\* ------------------------------------------------------------ parseFormData
MAX_FILE_SIZE == 5 * 1024 * 1024

FILE_TOO_LARGE_ERROR == "File too large. Maximum size is 5MB"
NotCsvError == "Please upload a valid CSV file"
NoFileError == "No file uploaded"
\* the message of an error busboy emits on a malformed body
BusboyError == "Unexpected end of form"
\* the message of an error thrown by dns.resolveMx itself
ResolverError == "resolveMx failed"

\* filename.endsWith('.csv')
endsWithCsv(filename) ==
  /\ Len(filename) >= 4
  /\ SubSeq(filename, Len(filename) - 3, Len(filename)) = <<".", "c", "s", "v">>

\* the bytes of an upload of whole lines, each ended by a newline
RECURSIVE byteLength(_, _, _)
byteLength(ls, lo, hi) ==
  IF lo > hi THEN 0
  ELSE IF lo = hi THEN Len(ls[lo]) + 1
  ELSE LET mid == (lo + hi) \div 2
       IN  byteLength(ls, lo, mid) + byteLength(ls, mid + 1, hi)

\* variant: a file of exactly MAX_FILE_SIZE bytes is refused
sizeExceededAtLimit(size) == size >= MAX_FILE_SIZE

\* if (fileSize > MAX_FILE_SIZE)
sizeExceeded(size) == size > MAX_FILE_SIZE

\* the catch block of the handler: the status and the body for an error
catchResponse(message) ==
  IF message = FILE_TOO_LARGE_ERROR THEN ErrorResponse(413, message)
  ELSE ErrorResponse(500, message)

\* ------------------------------------------------------------ inputs
MaxLines == 2

\* The lines a small upload is made of: two addresses of one domain, a third
\* spelling of the first (upper case, a stripped character, trailing blank),
\* an address of a second domain, two malformed addresses (one of them with the
\* first domain), a line of stripped characters only and a blank line.
LinePool ==
  { <<"a","@","x",".","c","o">>,
    <<"b","@","x",".","c","o">>,
    <<"A","<","@","x",".","c","o"," ">>,
    <<"a","@","y",".","c","o">>,
    <<"a","b">>,
    <<"a",".","@","x",".","c","o">>,
    <<"<",">">>,
    <<" ">> }

RECURSIVE SeqsUpTo(_, _)
SeqsUpTo(S, n) ==
  IF n = 0 THEN {<<>>}
  ELSE LET shorter == SeqsUpTo(S, n - 1)
       IN  shorter \cup {Append(q, x) : q \in {r \in shorter : Len(r) = n - 1}, x \in S}

SmallBatches == SeqsUpTo(LinePool, MaxLines) \ {<<>>}

\* A large upload: n distinct well-formed addresses of one domain
GenLine(i) ==
  <<"u", DigitSeq[((i \div 100) % 10) + 1], DigitSeq[((i \div 10) % 10) + 1],
    DigitSeq[(i % 10) + 1], "@", "x", ".", "c", "o">>
Gen(n) == [i \in 1..n |-> GenLine(i)]
LargeBatches == {Gen(maxEmails), Gen(maxEmails + 1)}

\* ------------------------------------------------------------ state
VARIABLES
  entry,            \* what is invoked: "handler" (an HTTP request), "validateEmails"
                    \* or "validateEmailFormat" (a call of that function)
  arg,              \* the argument of a function called on its own
  ret,              \* <<>> or <<the value that function returned>>
  lines,            \* the uploaded content, split into lines
  emails,           \* the list passed to validateEmails
  pc,               \* "request", "call", "resolving", "done"
  emailStatusMap,   \* Map email -> status
  domainMap,        \* Map domain -> emails
  domainValidation, \* Map domain -> status of the settled race
  mx,               \* per started domain: the promise of dns.resolveMx
  timer,            \* per started domain: "armed" or "fired"
  race,             \* per started domain: "pending" or the status Promise.race took
  winner,           \* history: which racer settled first ("none", "lookup", "timeout")
  resolveMxCalls,   \* the domains dns.resolveMx was called with, in call order
  result,           \* <<>> or <<the report validateEmails returned>>
  response,         \* <<>> or <<the response the handler sent>>
  method,           \* req.method ("" when no request is involved)
  headers,          \* the headers set on res, as <<name, value>> pairs
  events,           \* the events busboy has still to emit for the request body
  fileReceived,     \* parseFormData: fileReceived
  fileSize,         \* parseFormData: fileSize
  fileSizeExceeded, \* parseFormData: fileSizeExceeded
  parsePromise,     \* the promise of parseFormData: "none", "pending", "resolved", "rejected"
  started,          \* per started domain: the time checkMXRecords was called at
  now,              \* the time, in milliseconds
  other,            \* <<>> or <<the state of a second invocation, not running now>>
  requests,         \* history: the requests the caller's address has made in the
                    \* current minute, this one included
  stripeCalls,      \* the parameters of the calls made to the Stripe API, in call order
  stripeSettled     \* <<>> or <<what the call to the Stripe API settled with>>

requestVars == <<method, headers, events, fileReceived, fileSize, fileSizeExceeded,
                 parsePromise>>

worldVars == <<now, other, requests, stripeCalls, stripeSettled>>

vars == <<worldVars, entry, arg, ret, lines, emails, pc, emailStatusMap, domainMap, domainValidation,
          mx, timer, race, winner, resolveMxCalls, started, result, response, requestVars>>

emailsToValidate == slice(emails, maxEmails)

InitCommon ==
  /\ ret = <<>>
  /\ emailStatusMap = <<>>
  /\ domainMap = <<>>
  /\ domainValidation = <<>>
  /\ mx = <<>>
  /\ timer = <<>>
  /\ race = <<>>
  /\ winner = <<>>
  /\ resolveMxCalls = <<>>
  /\ started = <<>>
  /\ result = <<>>
  /\ response = <<>>
  /\ now = 0
  /\ other = <<>>
  /\ requests = IF entry = "handler" THEN 1 ELSE 0
  /\ stripeCalls = <<>>
  /\ stripeSettled = <<>>

\* a function called on its own: no request, no response object, no upload
NoRequest ==
  /\ method = ""
  /\ headers = {}
  /\ events = <<>>
  /\ fileReceived = FALSE
  /\ fileSize = 0
  /\ fileSizeExceeded = FALSE
  /\ parsePromise = "none"

\* a POST request whose file has been received: parseFormData has resolved
Init ==
  /\ entry = "handler"
  /\ lines \in SmallBatches \cup LargeBatches
  /\ emails = <<>>
  /\ pc = "request"
  /\ arg = <<>>
  /\ InitCommon
  /\ method = "POST"
  /\ headers = setHeaders({})
  /\ events = <<>>
  /\ fileReceived = TRUE
  /\ fileSize = byteLength(lines, 1, Len(lines))
  /\ fileSizeExceeded = FALSE
  /\ parsePromise = "resolved"

\* variant: the lookups are awaited one after the other, each started when the
\* one before it has timed out
startTimeAfterPrevious(t, i) == t + (i - 1) * DNS_TIMEOUT_MS

\* the time of the i-th call of checkMXRecords, when the callbacks of map run
\* from time t on: each of them runs up to its await, one right after the other
startTime(t, i) == t

\* variant: domainValidation is kept between invocations, and a domain that
\* another invocation has an outcome for is not looked up again
BeginValidateSharedCache(es) ==
  LET fp == firstPass(slice(es, maxEmails))
      keys == MapKeys(fp.domainMap)
      cache == IF other = <<>> THEN <<>> ELSE other[1].domainValidation
      fresh == SelectSeq(keys, LAMBDA d : ~MapHas(cache, d))
  IN  /\ emailStatusMap' = fp.statusMap
      /\ domainMap' = fp.domainMap
      /\ domainValidation' = SelectSeq(cache, LAMBDA e : e.key \in Range(keys))
      /\ resolveMxCalls' = resolveMxCalls \o fresh
      /\ mx' = [d \in Range(fresh) |-> pending]
      /\ timer' = [d \in Range(fresh) |-> "armed"]
      /\ started' = [d \in Range(fresh) |-> now]
      /\ race' = [d \in Range(fresh) |-> "pending"]
      /\ winner' = [d \in Range(fresh) |-> "none"]
      /\ pc' = "resolving"
      /\ UNCHANGED <<result, response>>

\* validateEmails up to its await: first pass, then one checkMXRecords call per
\* key of domainMap (each arms its timeout and calls dns.resolveMx)
BeginValidate(es) ==
  LET fp == firstPass(slice(es, maxEmails))
      keys == MapKeys(fp.domainMap)
  IN  /\ emailStatusMap' = fp.statusMap
      /\ domainMap' = fp.domainMap
      /\ domainValidation' = <<>>
      /\ resolveMxCalls' = resolveMxCalls \o keys
      /\ mx' = [d \in Range(keys) |-> pending]
      /\ timer' = [d \in Range(keys) |-> "armed"]
      /\ started' = [d \in Range(keys) |->
                       startTime(now, CHOOSE i \in DOMAIN keys : keys[i] = d)]
      /\ race' = [d \in Range(keys) |-> "pending"]
      /\ winner' = [d \in Range(keys) |-> "none"]
      /\ pc' = "resolving"
      /\ UNCHANGED <<result, response>>

Reject(status, message) ==
  /\ response' = <<ErrorResponse(status, message)>>
  /\ pc' = "done"
  /\ UNCHANGED <<emailStatusMap, domainMap, domainValidation, mx, timer, race,
                 winner, resolveMxCalls, started, result>>

\* variant: an upload without any candidate is validated like any other
HandleRequestNoEmptyGate ==
  /\ pc = "request"
  /\ LET es == processCSV(lines)
     IN  /\ emails' = es
         /\ IF exceedsLimit(es) THEN Reject(400, LimitError)
            ELSE BeginValidate(es)
  /\ UNCHANGED <<worldVars, entry, arg, ret, lines, requestVars>>

\* the handler from processCSV to the await inside validateEmails
HandleRequest ==
  /\ pc = "request"
  /\ LET es == processCSV(lines)
     IN  /\ emails' = es
         /\ IF Len(es) = 0 THEN Reject(400, NoEmailsError)
            ELSE IF exceedsLimit(es) THEN Reject(400, LimitError)
            ELSE BeginValidate(es)
  /\ UNCHANGED <<worldVars, entry, arg, ret, lines, requestVars>>

\* variant: a failed lookup is written to every domain committed so far
commitFailureSpreads(validation, d, before, after) ==
  IF after = before THEN validation
  ELSE IF after = SUCCESS THEN MapSet(validation, d, after)
  ELSE MapSet([i \in DOMAIN validation |-> [key |-> validation[i].key, value |-> after]],
              d, after)

\* the continuation of "const result = await checkMXRecords(domain)"
commit(validation, d, before, after) ==
  IF after # before THEN MapSet(validation, d, after) ELSE validation

\* dns.resolveMx(d) settles with outcome o
LookupSettles(d, o) ==
  /\ mx[d] = pending
  /\ mx' = [mx EXCEPT ![d] = o]
  /\ race' = [race EXCEPT ![d] = promiseRace(race[d], dnsStatus(o))]
  /\ winner' = [winner EXCEPT ![d] = IF @ = "none" THEN "lookup" ELSE @]
  /\ domainValidation' = commit(domainValidation, d, race[d], race'[d])
  /\ UNCHANGED <<worldVars, entry, arg, ret, lines, emails, pc, emailStatusMap, domainMap, timer,
                 resolveMxCalls, started, result, response, requestVars>>

\* the setTimeout callback of checkMXRecords(d) runs
TimeoutFires(d) ==
  /\ timer[d] = "armed"
  /\ timer' = [timer EXCEPT ![d] = "fired"]
  /\ race' = [race EXCEPT ![d] = promiseRace(race[d], DNS_QUERY_TIMEOUT)]
  /\ winner' = [winner EXCEPT ![d] = IF @ = "none" THEN "timeout" ELSE @]
  /\ domainValidation' = commit(domainValidation, d, race[d], race'[d])
  /\ UNCHANGED <<worldVars, entry, arg, ret, lines, emails, pc, emailStatusMap, domainMap, mx,
                 resolveMxCalls, started, result, response, requestVars>>

\* variant: the third pass runs without awaiting Promise.all
AggregateWithoutAwait ==
  /\ pc = "resolving"
  /\ LET sm == thirdPass(emailsToValidate, emailStatusMap, domainValidation)
         rep == report(emails, emailsToValidate, sm)
     IN  /\ emailStatusMap' = sm
         /\ result' = <<rep>>
         /\ response' = IF entry = "handler" THEN <<JsonResponse(200, rep)>>
                        ELSE response
  /\ pc' = "done"
  /\ UNCHANGED <<worldVars, entry, arg, ret, lines, emails, domainMap, domainValidation, mx, timer,
                 race, winner, resolveMxCalls, started, requestVars>>

\* Promise.all has resolved: third pass, counting, return (and the 200 response)
Aggregate ==
  /\ pc = "resolving"
  /\ \A d \in Range(MapKeys(domainMap)) : MapHas(domainValidation, d)
  /\ LET sm == thirdPass(emailsToValidate, emailStatusMap, domainValidation)
         rep == report(emails, emailsToValidate, sm)
     IN  /\ emailStatusMap' = sm
         /\ result' = <<rep>>
         /\ response' = IF entry = "handler" THEN <<JsonResponse(200, rep)>>
                        ELSE response
  /\ pc' = "done"
  /\ UNCHANGED <<worldVars, entry, arg, ret, lines, emails, domainMap, domainValidation, mx, timer,
                 race, winner, resolveMxCalls, started, requestVars>>

Next ==
  \/ HandleRequest
  \/ \E d \in DOMAIN mx : \E o \in LookupOutcomes : LookupSettles(d, o)
  \/ \E d \in DOMAIN timer : TimeoutFires(d)
  \/ Aggregate

Spec == Init /\ [][Next]_vars

\* The event loop runs every callback that is ready: the handler goes on once
\* the upload is parsed, a timer that is armed fires, and the continuation of
\* Promise.all runs once every race has settled. Nothing makes a DNS lookup
\* settle.
\* HandleRequest is the step that leaves the stage "request", and it is enabled
\* throughout that stage
HandleRequestStep ==
  /\ pc = "request"
  /\ pc' \in {"resolving", "done"}

\* Aggregate is the step from "resolving" to "done", enabled once every race
\* has committed its outcome
AggregateStep ==
  /\ pc = "resolving"
  /\ \A d \in Range(MapKeys(domainMap)) : MapHas(domainValidation, d)
  /\ pc' = "done"

Fairness ==
  /\ WF_pc(HandleRequestStep)
  /\ WF_vars(\E d \in DOMAIN timer : TimeoutFires(d))
  /\ WF_pc(AggregateStep)

SpecFair == Spec /\ Fairness

\* ------------------------------------------------------------ the handler and the clock
\* the instants the model looks at the clock at: just after the request came in,
\* and one and two timeouts after either
Instants ==
  {1, DNS_TIMEOUT_MS, DNS_TIMEOUT_MS + 1, 2 * DNS_TIMEOUT_MS, 2 * DNS_TIMEOUT_MS + 1}

\* every race of the batch has committed its outcome
AllCommitted == \A d \in Range(MapKeys(domainMap)) : MapHas(domainValidation, d)

\* Time passes while the upload is parsed and while the lookups are in flight.
\* The event loop runs a callback as soon as it is ready: time does not pass
\* beyond the moment a timer is due, nor while the continuation of Promise.all
\* is ready to run.
Tick(t) ==
  /\ t > now
  /\ \/ pc = "request" /\ t < DNS_TIMEOUT_MS
     \/ /\ pc = "resolving"
        /\ ~AllCommitted
        /\ \A d \in DOMAIN timer :
             timer[d] = "armed" => t <= started[d] + DNS_TIMEOUT_MS
  /\ now' = t
  /\ UNCHANGED <<other, requests, stripeCalls, stripeSettled, entry, arg, ret, lines, pc,
                 emails, emailStatusMap, domainMap, domainValidation, mx, timer, race,
                 winner, resolveMxCalls, started, result, response, requestVars>>

\* the setTimeout callback of checkMXRecords(d) runs DNS_TIMEOUT_MS after the call
TimeoutDue(d) ==
  /\ now = started[d] + DNS_TIMEOUT_MS
  /\ TimeoutFires(d)

NextTimed ==
  \/ HandleRequest
  \/ \E d \in DOMAIN mx : \E o \in LookupOutcomes : LookupSettles(d, o)
  \/ \E d \in DOMAIN timer : TimeoutDue(d)
  \/ Aggregate
  \/ \E t \in Instants : Tick(t)

SpecTimed == Init /\ [][NextTimed]_vars

\* ------------------------------------------------------------ two invocations
\* The uploads of two requests that are in progress together: one address, and
\* an address of the same domain with one of another domain
TwoBatches ==
  { << <<"a","@","x",".","c","o">> >>,
    << <<"b","@","x",".","c","o">>, <<"a","@","y",".","c","o">> >> }

\* what a lookup settles with when two requests are in progress
TwoOutcomes == {Records(1), Rejected("ENOTFOUND")}

\* the locals of the invocation that is running: those of the handler, of
\* validateEmails and of its calls of checkMXRecords
Running ==
  [lines |-> lines, emails |-> emails, pc |-> pc, emailStatusMap |-> emailStatusMap,
   domainMap |-> domainMap, domainValidation |-> domainValidation, mx |-> mx,
   timer |-> timer, race |-> race, winner |-> winner, resolveMxCalls |-> resolveMxCalls,
   started |-> started, result |-> result, response |-> response, fileSize |-> fileSize]

\* the locals of an invocation whose upload has been parsed
Parsed(upload) ==
  [lines |-> upload, emails |-> <<>>, pc |-> "request", emailStatusMap |-> <<>>,
   domainMap |-> <<>>, domainValidation |-> <<>>, mx |-> <<>>, timer |-> <<>>,
   race |-> <<>>, winner |-> <<>>, resolveMxCalls |-> <<>>, started |-> <<>>,
   result |-> <<>>, response |-> <<>>, fileSize |-> byteLength(upload, 1, Len(upload))]

\* two POST requests whose files have been received
InitTwo ==
  /\ entry = "handler"
  /\ arg = <<>>
  /\ ret = <<>>
  /\ \E first \in TwoBatches :
       /\ lines = Parsed(first).lines
       /\ fileSize = Parsed(first).fileSize
  /\ other \in {<<Parsed(second)>> : second \in TwoBatches}
  /\ emails = <<>>
  /\ pc = "request"
  /\ emailStatusMap = <<>>
  /\ domainMap = <<>>
  /\ domainValidation = <<>>
  /\ mx = <<>>
  /\ timer = <<>>
  /\ race = <<>>
  /\ winner = <<>>
  /\ resolveMxCalls = <<>>
  /\ started = <<>>
  /\ result = <<>>
  /\ response = <<>>
  /\ now = 0
  /\ requests = 1
  /\ stripeCalls = <<>>
  /\ stripeSettled = <<>>
  /\ method = "POST"
  /\ headers = setHeaders({})
  /\ events = <<>>
  /\ fileReceived = TRUE
  /\ fileSizeExceeded = FALSE
  /\ parsePromise = "resolved"

\* the event loop turns from the callbacks of one invocation to those of the
\* other: each invocation has its own locals
Switch ==
  /\ other # <<>>
  /\ other' = <<Running>>
  /\ lines' = other[1].lines
  /\ emails' = other[1].emails
  /\ pc' = other[1].pc
  /\ emailStatusMap' = other[1].emailStatusMap
  /\ domainMap' = other[1].domainMap
  /\ domainValidation' = other[1].domainValidation
  /\ mx' = other[1].mx
  /\ timer' = other[1].timer
  /\ race' = other[1].race
  /\ winner' = other[1].winner
  /\ resolveMxCalls' = other[1].resolveMxCalls
  /\ started' = other[1].started
  /\ result' = other[1].result
  /\ response' = other[1].response
  /\ fileSize' = other[1].fileSize
  /\ UNCHANGED <<now, requests, stripeCalls, stripeSettled, entry, arg, ret, method, headers,
                 events, fileReceived, fileSizeExceeded, parsePromise>>

NextTwo ==
  \/ HandleRequest
  \/ \E d \in DOMAIN mx : \E o \in TwoOutcomes : LookupSettles(d, o)
  \/ \E d \in DOMAIN timer : TimeoutFires(d)
  \/ Aggregate
  \/ Switch

SpecTwo == InitTwo /\ [][NextTwo]_vars

\* ------------------------------------------------------------ the handler from its first line
MaxChunks == 2

\* what a data chunk carries: an address of one of two domains, or blanks only
ChunkLines ==
  { <<"a","@","x",".","c","o">>,
    <<"a","@","y",".","c","o">>,
    <<" ">> }

\* the sizes of a chunk: the line and its newline with one blank, and the
\* sizes that fill the file up to the limit, or one byte past it, after a
\* small chunk or with none before
ChunkLengths == {8, MAX_FILE_SIZE - 8, MAX_FILE_SIZE - 7, MAX_FILE_SIZE + 1}

FileNames == { <<"l",".","c","s","v">>, <<"l",".","t","x","t">> }

FileEvent(filename) == [type |-> "file", filename |-> filename, length |-> 0, line |-> <<>>]
\* a chunk of the file: one line, padded with blanks to length bytes (line.trim()
\* removes the padding, so the line stands for the text of the chunk)
DataEvent(length, line) == [type |-> "data", filename |-> <<>>, length |-> length, line |-> line]
FinishEvent == [type |-> "finish", filename |-> <<>>, length |-> 0, line |-> <<>>]

Chunks == {DataEvent(n, l) : n \in ChunkLengths, l \in ChunkLines}

\* the bodies of a request: a form without a file part, or one file of up to
\* MaxChunks chunks
Uploads ==
  {<<FinishEvent>>}
    \cup {<<FileEvent(f)>> \o cs \o <<FinishEvent>> :
            f \in FileNames, cs \in SeqsUpTo(Chunks, MaxChunks)}

Methods == {"OPTIONS", "GET", "POST"}

\* the handler is invoked with a request
InitRequest ==
  /\ entry = "handler"
  /\ lines = <<>>
  /\ emails = <<>>
  /\ pc = "start"
  /\ arg = <<>>
  /\ InitCommon
  /\ method \in Methods
  /\ headers = {}
  /\ events \in Uploads
  /\ fileReceived = FALSE
  /\ fileSize = 0
  /\ fileSizeExceeded = FALSE
  /\ parsePromise = "none"

pipelineVars == <<emails, emailStatusMap, domainMap, domainValidation, mx, timer, race,
                  winner, resolveMxCalls, started, result>>

\* the handler up to "await parseFormData(req)"
Dispatch ==
  /\ pc = "start"
  /\ headers' = setHeaders(headers)
  /\ IF method = "OPTIONS"
     THEN /\ response' = <<EndResponse(200)>>
          /\ pc' = "done"
          /\ events' = <<>>
          /\ UNCHANGED parsePromise
     ELSE IF method # "POST"
     THEN /\ response' = <<ErrorResponse(405, MethodNotAllowedError)>>
          /\ pc' = "done"
          /\ events' = <<>>
          /\ UNCHANGED parsePromise
     ELSE /\ parsePromise' = "pending"
          /\ pc' = "parsing"
          /\ UNCHANGED <<response, events>>
  /\ UNCHANGED <<worldVars, entry, arg, ret, lines, method, fileReceived, fileSize, fileSizeExceeded,
                 pipelineVars>>

\* reject(new Error(message)) and, when that settles the promise, the catch
\* block of the handler
Rejects(message) ==
  IF parsePromise = "pending"
  THEN /\ parsePromise' = "rejected"
       /\ response' = <<catchResponse(message)>>
       /\ pc' = "done"
  ELSE UNCHANGED <<parsePromise, response, pc>>

\* resolve(csvContent) and, when that settles the promise, the handler going on
Resolves ==
  IF parsePromise = "pending"
  THEN /\ parsePromise' = "resolved"
       /\ pc' = "request"
       /\ UNCHANGED response
  ELSE UNCHANGED <<parsePromise, response, pc>>

Emitting(type) ==
  /\ parsePromise # "none"
  /\ events # <<>>
  /\ Head(events).type = type

\* bb.on('file', ...)
OnFile ==
  /\ Emitting("file")
  /\ events' = Tail(events)
  /\ IF ~endsWithCsv(Head(events).filename)
     THEN /\ Rejects(NotCsvError)
          /\ UNCHANGED fileReceived
     ELSE /\ fileReceived' = TRUE
          /\ UNCHANGED <<parsePromise, response, pc>>
  /\ UNCHANGED <<worldVars, entry, arg, ret, lines, method, headers, fileSize, fileSizeExceeded,
                 pipelineVars>>

\* file.on('data', ...): without the listener (no .csv name) the chunk is drained
OnData ==
  /\ Emitting("data")
  /\ events' = Tail(events)
  /\ IF ~fileReceived \/ fileSizeExceeded
     THEN UNCHANGED <<fileSize, fileSizeExceeded, lines, parsePromise, response, pc>>
     ELSE LET size == fileSize + Head(events).length
          IN  /\ fileSize' = size
              /\ IF sizeExceeded(size)
                 THEN /\ fileSizeExceeded' = TRUE
                      /\ Rejects(FILE_TOO_LARGE_ERROR)
                      /\ UNCHANGED lines
                 ELSE /\ lines' = Append(lines, Head(events).line)
                      /\ UNCHANGED <<fileSizeExceeded, parsePromise, response, pc>>
  /\ UNCHANGED <<worldVars, entry, arg, ret, method, headers, fileReceived, pipelineVars>>

\* bb.on('finish', ...)
OnFinish ==
  /\ Emitting("finish")
  /\ events' = Tail(events)
  /\ IF ~fileReceived \/ lines = <<>>
     THEN Rejects(NoFileError)
     ELSE Resolves
  /\ UNCHANGED <<worldVars, entry, arg, ret, lines, method, headers, fileReceived, fileSize,
                 fileSizeExceeded, pipelineVars>>

\* bb.on('error', ...): busboy gives up on the body and emits nothing more
OnError ==
  /\ parsePromise # "none"
  /\ events # <<>>
  /\ events' = <<>>
  /\ Rejects(BusboyError)
  /\ UNCHANGED <<worldVars, entry, arg, ret, lines, method, headers, fileReceived, fileSize,
                 fileSizeExceeded, pipelineVars>>

\* dns.resolveMx throws instead of returning a promise
thrown == [kind |-> "thrown", n |-> 0, code |-> ""]

\* the handler from processCSV on when dns.resolveMx throws for the domains of
\* T: those calls of checkMXRecords reject (their timers stay armed, there is
\* no race), Promise.all rejects, validateEmails rejects, and the catch block
\* of the handler answers; the lookups of the other domains stay in flight
HandleRequestResolverThrows ==
  /\ pc = "request"
  /\ LET es == processCSV(lines)
         fp == firstPass(slice(es, maxEmails))
         keys == MapKeys(fp.domainMap)
     IN  /\ Len(es) # 0
         /\ ~exceedsLimit(es)
         /\ \E T \in SUBSET Range(keys) :
              /\ T # {}
              /\ mx' = [d \in Range(keys) |-> IF d \in T THEN thrown ELSE pending]
              /\ race' = [d \in Range(keys) |-> IF d \in T THEN "rejected" ELSE "pending"]
              /\ winner' = [d \in Range(keys) |-> IF d \in T THEN "thrown" ELSE "none"]
         /\ emails' = es
         /\ emailStatusMap' = fp.statusMap
         /\ domainMap' = fp.domainMap
         /\ domainValidation' = <<>>
         /\ resolveMxCalls' = resolveMxCalls \o keys
         /\ timer' = [d \in Range(keys) |-> "armed"]
         /\ started' = [d \in Range(keys) |-> now]
  /\ response' = <<catchResponse(ResolverError)>>
  /\ pc' = "done"
  /\ UNCHANGED <<worldVars, entry, arg, ret, lines, result, requestVars>>

NextRequest ==
  \/ Dispatch
  \/ OnFile
  \/ OnData
  \/ OnFinish
  \/ OnError
  \/ HandleRequest
  \/ HandleRequestResolverThrows
  \/ \E d \in DOMAIN mx : \E o \in LookupOutcomes : LookupSettles(d, o)
  \/ \E d \in DOMAIN timer : TimeoutFires(d)
  \/ Aggregate

SpecRequest == InitRequest /\ [][NextRequest]_vars

\* ------------------------------------------------------------ one address, request after request
\* the requests one address makes in a minute before the model stops counting
MaxRequests == 11

\* the README's "10 requests per minute per IP address"
RATE_LIMIT == 10

\* the bodies of the requests that follow the first: no file, or a file of at
\* most one chunk
LaterUploads == {u \in Uploads : Len(u) <= 3}

\* the handler has answered and is invoked again for the next request of the
\* same address, within the same minute: every local of the handler is new
Arrive ==
  /\ entry = "handler"
  /\ pc = "done"
  /\ requests < MaxRequests
  /\ requests' = requests + 1
  /\ method' \in Methods
  /\ events' \in LaterUploads
  /\ pc' = "start"
  /\ lines' = <<>>
  /\ emails' = <<>>
  /\ headers' = {}
  /\ fileReceived' = FALSE
  /\ fileSize' = 0
  /\ fileSizeExceeded' = FALSE
  /\ parsePromise' = "none"
  /\ emailStatusMap' = <<>>
  /\ domainMap' = <<>>
  /\ domainValidation' = <<>>
  /\ mx' = <<>>
  /\ timer' = <<>>
  /\ race' = <<>>
  /\ winner' = <<>>
  /\ resolveMxCalls' = <<>>
  /\ started' = <<>>
  /\ result' = <<>>
  /\ response' = <<>>
  /\ UNCHANGED <<entry, arg, ret, now, other, stripeCalls, stripeSettled>>

\* the minute ends between two requests of the address
MinuteElapses ==
  /\ entry = "handler"
  /\ pc = "done"
  /\ requests > 0
  /\ requests' = 0
  /\ UNCHANGED <<entry, arg, ret, lines, emails, pc, pipelineVars, response, requestVars,
                 now, other, stripeCalls, stripeSettled>>

NextClient ==
  \/ NextRequest
  \/ Arrive
  \/ MinuteElapses

SpecClient == InitRequest /\ [][NextClient]_vars

\* ------------------------------------------------------------ validateEmails alone
\* The lists validateEmails is called with: what processCSV makes of the small
\* uploads (the empty list among them) and of the large ones.
CoreInputs == {processCSV(b) : b \in SmallBatches \cup LargeBatches}

InitCore ==
  /\ entry = "validateEmails"
  /\ lines = <<>>
  /\ emails \in CoreInputs
  /\ pc = "call"
  /\ arg = <<>>
  /\ InitCommon
  /\ NoRequest

CallValidate ==
  /\ pc = "call"
  /\ entry = "validateEmails"
  /\ BeginValidate(emails)
  /\ UNCHANGED <<worldVars, entry, arg, ret, lines, emails, requestVars>>

NextCore ==
  \/ CallValidate
  \/ \E d \in DOMAIN mx : \E o \in LookupOutcomes : LookupSettles(d, o)
  \/ \E d \in DOMAIN timer : TimeoutFires(d)
  \/ Aggregate

SpecCore == InitCore /\ [][NextCore]_vars

\* ------------------------------------------------------------ validateEmailFormat alone
MaxLen == 5

\* one character of each kind the rules tell apart: alphanumeric, '.', '@',
\* '-', a character allowed in the local part only, a character allowed nowhere
FormatAlphabet == {"a", ".", "@", "-", "+", "!"}

ShortStrings == SeqsUpTo(FormatAlphabet, MaxLen)

\* n times "a"
Pad(n) == [i \in 1..n |-> "a"]

\* the lengths around the two limits, for the short strings they are joined to
PadLengths ==
  ((MAX_LOCAL_PART_LENGTH - 3)..(MAX_LOCAL_PART_LENGTH + 1))
    \cup ((MAX_EMAIL_LENGTH - 4)..(MAX_EMAIL_LENGTH + 1))

Affixes == {s \in ShortStrings : Len(s) <= 3}

LongStrings ==
  {Pad(n) \o s : n \in PadLengths, s \in Affixes}
    \cup {s \o Pad(n) : n \in PadLengths, s \in Affixes}

FormatInputs == (ShortStrings \ {<<>>}) \cup LongStrings

InitFormat ==
  /\ entry = "validateEmailFormat"
  /\ lines = <<>>
  /\ emails = <<>>
  /\ pc = "call"
  /\ InitCommon
  /\ NoRequest
  /\ arg \in FormatInputs

CallFormat ==
  /\ pc = "call"
  /\ entry = "validateEmailFormat"
  /\ ret' = <<validateEmailFormat(arg)>>
  /\ pc' = "done"
  /\ UNCHANGED <<worldVars, entry, arg, lines, emails, emailStatusMap, domainMap,
                 domainValidation, mx, timer, race, winner, resolveMxCalls, started,
                 result, response, requestVars>>

NextFormat == CallFormat

SpecFormat == InitFormat /\ [][NextFormat]_vars

\* ------------------------------------------------------------ sanitizeEmail alone
\* every character sanitizeEmail removes, a blank, and two it keeps
SanitizeChars == DangerousChars \cup ControlChars \cup {" ", "a", "B"}

\* one character of each kind, for the longer strings
SanitizeAlphabet == {"a", "B", "<", "\t", " "}

SanitizeInputs ==
  {JsString(s) : s \in SeqsUpTo(SanitizeChars, 3) \cup SeqsUpTo(SanitizeAlphabet, MaxLen)}
    \cup {JsNull, JsUndefined, JsNumber(<<"0">>), JsNumber(<<"4", "2">>), JsObject}

InitSanitize ==
  /\ entry = "sanitizeEmail"
  /\ lines = <<>>
  /\ emails = <<>>
  /\ pc = "call"
  /\ InitCommon
  /\ NoRequest
  /\ arg \in SanitizeInputs

CallSanitize ==
  /\ pc = "call"
  /\ entry = "sanitizeEmail"
  /\ ret' = <<sanitizeEmailValue(arg)>>
  /\ pc' = "done"
  /\ UNCHANGED <<worldVars, entry, arg, lines, emails, emailStatusMap, domainMap,
                 domainValidation, mx, timer, race, winner, resolveMxCalls, started,
                 result, response, requestVars>>

NextSanitize == CallSanitize

SpecSanitize == InitSanitize /\ [][NextSanitize]_vars

\* sanitizeEmail called alone, or by processCSV for every line of an upload
SpecSanitizeAll == (InitSanitize \/ Init) /\ [][NextSanitize \/ Next]_vars

\* ------------------------------------------------------------ the payment handlers
\* (api/create-payment-intent.js and api/create-checkout-session.js)
MAX_METADATA_SIZE == 500 * 1024

\* the number of entries create-payment-intent keeps: emails.slice(0, 300)
METADATA_EMAIL_LIMIT == 300

InvalidEmailDataError == "Invalid email data"
NoValidEmailDataError == "No valid email data provided"
TooLargeError == "Email data too large for processing"
CheckoutFallbackError == "Failed to create checkout session"
PaymentIntentFallbackError == "Error creating payment intent. Please try again."
\* the message of the TypeError "const { emails } = req.body" throws without a body
DestructureError == "Cannot destructure property 'emails' of 'req.body' as it is undefined."

VALID == <<"V","a","l","i","d">>
INVALID == <<"I","n","v","a","l","i","d">>

\* an array (typeof gives "object"; Array.isArray tells it apart)
JsArray(items) == [type |-> "array", items |-> items]
\* an entry of the array that is an object with the properties email and status
\* (JsUndefined for a property the object does not have)
Item(email, status) == [type |-> "item", email |-> email, status |-> status, pad |-> 0]
\* the same with a long email: the characters of email (a string trim() leaves
\* alone) followed by pad times "a"
LongItem(email, status, pad) ==
  [type |-> "item", email |-> email, status |-> status, pad |-> pad]

\* !value
falsy(value) ==
  \/ value.type = "undefined"
  \/ value.type = "object" /\ value.chars = JsNull.chars
  \/ value.type = "string" /\ value.chars = <<>>
  \/ value.type = "number" /\ value.chars = <<"0">>

\* String(value || '')
stringOrEmpty(value) ==
  IF falsy(value) THEN <<>>
  ELSE IF value.type \in {"string", "number"} THEN value.chars
  ELSE <<"[","o","b","j","e","c","t"," ","O","b","j","e","c","t","]">>

\* Number.prototype.toString for a count
RECURSIVE numberToString(_)
numberToString(n) ==
  IF n < 10 THEN <<DigitSeq[n + 1]>>
  ELSE Append(numberToString(n \div 10), DigitSeq[(n % 10) + 1])

\* the entry of the map callback for an item that is dropped
nullEntry == [kept |-> FALSE, email |-> <<>>, status |-> <<>>, pad |-> 0]

\* variant: the status is compared as submitted, without trim()
sanitizeItemStatusUntrimmed(item) ==
  IF item.type # "item" THEN nullEntry
  ELSE LET email == trim(stringOrEmpty(item.email))
           status == stringOrEmpty(item.status)
       IN  IF (email = <<>> /\ item.pad = 0) \/ (status # VALID /\ status # INVALID)
           THEN nullEntry
           ELSE [kept |-> TRUE, email |-> email, status |-> status, pad |-> item.pad]

\* the callback of map in sanitizeEmailData
sanitizeItem(item) ==
  IF item.type # "item" THEN nullEntry
  ELSE LET email == trim(stringOrEmpty(item.email))
           status == trim(stringOrEmpty(item.status))
       IN  IF (email = <<>> /\ item.pad = 0) \/ (status # VALID /\ status # INVALID)
           THEN nullEntry
           ELSE [kept |-> TRUE, email |-> email, status |-> status, pad |-> item.pad]

\* sanitizeEmailData (create-payment-intent.js)
sanitizeEmailData(emailData) ==
  IF emailData.type # "array" THEN <<>>
  ELSE LET first == slice(emailData.items, METADATA_EMAIL_LIMIT)
           mapped == [i \in DOMAIN first |-> sanitizeItem(first[i])]
       IN  SelectSeq(mapped, LAMBDA e : e.kept)

\* the callback of filter in validateEmailData
validItem(item) ==
  /\ item.type = "item"
  /\ item.email.type = "string"
  /\ (trim(item.email.chars) # <<>> \/ item.pad > 0)
  /\ item.status.type = "string"
  /\ item.status.chars \in {VALID, INVALID}

\* validateEmailData (create-checkout-session.js): <<>> stands for null
validateEmailData(emailData) ==
  IF emailData.type # "array" \/ emailData.items = <<>> THEN <<>>
  ELSE SelectSeq(emailData.items, validItem)

\* !emails || !Array.isArray(emails) || emails.length === 0
invalidEmailData(emailData) ==
  \/ falsy(emailData)
  \/ emailData.type # "array"
  \/ emailData.items = <<>>

\* the characters JSON.stringify writes for a string, quotes aside
jsonStringLength(s) ==
  Len(s) + Cardinality({i \in DOMAIN s : s[i] \in {"\"", "\\", "\n", "\r", "\t"}})

\* JSON.stringify(sanitizedEmails).length:
\* [{"email":"...","status":"..."},...]
RECURSIVE jsonLength(_, _, _)
jsonLength(es, lo, hi) ==
  IF lo > hi THEN 0
  ELSE IF lo = hi
  THEN 10 + jsonStringLength(es[lo].email) + es[lo].pad + 12
         + jsonStringLength(es[lo].status) + 2
  ELSE LET mid == (lo + hi) \div 2
       IN  jsonLength(es, lo, mid) + 1 + jsonLength(es, mid + 1, hi)

emailsJsonLength(es) == 2 + jsonLength(es, 1, Len(es))

\* the headers create-payment-intent sets on every response
PaymentSecurityHeaders ==
  { <<"X-Content-Type-Options", "nosniff">>,
    <<"X-Frame-Options", "DENY">>,
    <<"Referrer-Policy", "strict-origin-when-cross-origin">> }

setPaymentHeaders(h) ==
  LET new == CorsHeaders \cup {ContentTypeHeader} \cup PaymentSecurityHeaders
  IN  {x \in h : x[1] \notin {y[1] : y \in new}} \cup new

CanonicalOrigin == "https://email-validator.pattens.tech"

\* setSecurityHeaders(res, origin) of create-checkout-session.js ("" stands for
\* a request without an Origin header)
setSecurityHeaders(h, origin) ==
  LET new == { <<"Access-Control-Allow-Origin",
                 IF origin = "" THEN CanonicalOrigin ELSE origin>>,
               <<"Access-Control-Allow-Methods", "POST, OPTIONS">>,
               <<"Access-Control-Allow-Headers", "Content-Type">> }
                \cup PaymentSecurityHeaders
  IN  {x \in h : x[1] \notin {y[1] : y \in new}} \cup new

\* what stripe.paymentIntents.create or stripe.checkout.sessions.create settles with
StripeResult(id, secret, url) ==
  [settled |-> "resolved", type |-> "", message |-> "", id |-> id, secret |-> secret, url |-> url]
StripeError(type, message) ==
  [settled |-> "rejected", type |-> type, message |-> message, id |-> "", secret |-> "", url |-> ""]

\* the error "const { emails } = req.body" throws when the request has no body
TypeError == StripeError("", DestructureError)

\* the catch block of create-payment-intent
paymentIntentCatch(error) ==
  IF error.type = "StripeCardError" THEN ErrorResponse(400, error.message)
  ELSE ErrorResponse(500, IF error.message # "" THEN error.message
                          ELSE PaymentIntentFallbackError)

\* the catch block of create-checkout-session
checkoutSessionCatch(error) ==
  ErrorResponse(500, IF error.message # "" THEN error.message ELSE CheckoutFallbackError)

\* ---- inputs
MaxEntries == 2

ItemPool ==
  { JsNull,
    JsString(<<"x">>),
    Item(JsUndefined, JsUndefined),
    Item(JsString(<<>>), JsString(VALID)),
    Item(JsString(<<" ">>), JsString(VALID)),
    Item(JsString(<<"a","@","x",".","c","o">>), JsString(VALID)),
    Item(JsString(<<"b","@","x",".","c","o">>), JsString(INVALID)),
    Item(JsString(<<"a","@","x",".","c","o">>), JsString(<<"S","u","c","c","e","s","s">>)),
    Item(JsString(<<"a","@","x",".","c","o">>), JsString(<<" ">> \o VALID)),
    Item(JsString(<<" ","a","@","x",".","c","o">>), JsString(INVALID)),
    Item(JsNumber(<<"4","2">>), JsString(VALID)),
    Item(JsString(<<"a","@","x",".","c","o">>), JsUndefined) }

\* arrays longer than the 300 entries create-payment-intent keeps: entries that
\* qualify only, none within the first 300, and one within the first 300
LargeArrays ==
  LET good == Item(JsString(<<"a","@","x",".","c","o">>), JsString(VALID))
      bad == Item(JsString(<<"a","@","x",".","c","o">>), JsString(<<"S","u","c","c","e","s","s">>))
      n == METADATA_EMAIL_LIMIT
  IN  { [i \in 1..(n + 1) |-> good],
        [i \in 1..(n + 1) |-> IF i <= n THEN bad ELSE good],
        [i \in 1..(n + 1) |-> IF i < n THEN bad ELSE good] }

\* one entry whose JSON text is exactly MAX_METADATA_SIZE characters long, and
\* one a character longer
LongArrays ==
  { <<LongItem(JsString(<<"a","@","x",".","c","o">>), JsString(VALID), n)>> :
      n \in {MAX_METADATA_SIZE - 37, MAX_METADATA_SIZE - 36} }

EmailsValues ==
  {JsUndefined, JsString(<<"x">>)}
    \cup {JsArray(a) : a \in SeqsUpTo(ItemPool, MaxEntries) \cup LargeArrays \cup LongArrays}

PaymentRequest(httpMethod, hasBody, origin, emailData) ==
  [method |-> httpMethod, hasBody |-> hasBody, origin |-> origin, emails |-> emailData]

PaymentRequests ==
  {PaymentRequest("POST", TRUE, o, e) : o \in {"", "https://app.example"}, e \in EmailsValues}
    \cup {PaymentRequest(m, FALSE, "", JsUndefined) : m \in Methods}

StripeOutcomes ==
  { StripeResult("id_1", "id_1_secret", "https://checkout.stripe.com/c/pay/id_1"),
    StripeError("StripeCardError", "Your card was declined."),
    StripeError("StripeAPIError", "An error occurred with our connection to Stripe."),
    StripeError("", "Network error"),
    StripeError("", "") }

InitPayment ==
  /\ entry \in {"create-payment-intent", "create-checkout-session"}
  /\ arg \in PaymentRequests
  /\ lines = <<>>
  /\ emails = <<>>
  /\ pc = "call"
  /\ InitCommon
  /\ NoRequest

\* res.status(...).json(...) or .end() before any call to Stripe
Respond(r) ==
  /\ response' = <<r>>
  /\ pc' = "done"
  /\ UNCHANGED stripeCalls

\* create-payment-intent up to "await stripe.paymentIntents.create(...)"
CallPaymentIntent ==
  /\ entry = "create-payment-intent"
  /\ pc = "call"
  /\ headers' = setPaymentHeaders(headers)
  /\ IF arg.method = "OPTIONS" THEN Respond(EndResponse(200))
     ELSE IF arg.method # "POST" THEN Respond(ErrorResponse(405, MethodNotAllowedError))
     ELSE IF ~arg.hasBody THEN Respond(paymentIntentCatch(TypeError))
     ELSE IF invalidEmailData(arg.emails)
     THEN Respond(ErrorResponse(400, InvalidEmailDataError))
     ELSE LET sanitizedEmails == sanitizeEmailData(arg.emails)
          IN  IF Len(sanitizedEmails) = 0
              THEN Respond(ErrorResponse(400, NoValidEmailDataError))
              ELSE IF emailsJsonLength(sanitizedEmails) > MAX_METADATA_SIZE
              THEN Respond(ErrorResponse(400, TooLargeError))
              ELSE /\ stripeCalls' =
                        Append(stripeCalls,
                               [api |-> "paymentIntents.create",
                                amount |-> 999,
                                currency |-> "gbp",
                                metadata |->
                                  [emails |-> sanitizedEmails,
                                   emailCount |-> numberToString(Len(sanitizedEmails))]])
                   /\ pc' = "stripe"
                   /\ UNCHANGED response
  /\ UNCHANGED <<now, other, requests, stripeSettled, entry, arg, ret, lines, pipelineVars,
                 method, events,
                 fileReceived, fileSize, fileSizeExceeded, parsePromise>>

\* create-checkout-session up to "await stripe.checkout.sessions.create(...)"
CallCheckoutSession ==
  /\ entry = "create-checkout-session"
  /\ pc = "call"
  /\ headers' = setSecurityHeaders(headers, arg.origin)
  /\ IF arg.method = "OPTIONS" THEN Respond(EndResponse(200))
     ELSE IF arg.method # "POST" THEN Respond(ErrorResponse(405, MethodNotAllowedError))
     ELSE IF ~arg.hasBody THEN Respond(checkoutSessionCatch(TypeError))
     ELSE IF invalidEmailData(arg.emails)
     THEN Respond(ErrorResponse(400, InvalidEmailDataError))
     ELSE LET validatedEmails == validateEmailData(arg.emails)
              count(status) ==
                Len(SelectSeq(validatedEmails, LAMBDA e : e.status.chars = status))
          IN  IF validatedEmails = <<>>
              THEN Respond(ErrorResponse(400, NoValidEmailDataError))
              ELSE /\ stripeCalls' =
                        Append(stripeCalls,
                               [api |-> "checkout.sessions.create",
                                amount |-> 999,
                                currency |-> "gbp",
                                metadata |->
                                  [emailCount |-> numberToString(Len(validatedEmails)),
                                   validEmails |-> numberToString(count(VALID)),
                                   invalidEmails |-> numberToString(count(INVALID))]])
                   /\ pc' = "stripe"
                   /\ UNCHANGED response
  /\ UNCHANGED <<now, other, requests, stripeSettled, entry, arg, ret, lines, pipelineVars,
                 method, events,
                 fileReceived, fileSize, fileSizeExceeded, parsePromise>>

\* stripe.paymentIntents.create settles and create-payment-intent answers
PaymentIntentSettles(o) ==
  /\ entry = "create-payment-intent"
  /\ pc = "stripe"
  /\ response' = IF o.settled = "resolved"
                 THEN <<JsonResponse(200, [clientSecret |-> o.secret])>>
                 ELSE <<paymentIntentCatch(o)>>
  /\ stripeSettled' = <<o>>
  /\ pc' = "done"
  /\ UNCHANGED <<now, other, requests, stripeCalls, entry, arg, ret, lines, pipelineVars,
                 requestVars>>

\* stripe.checkout.sessions.create settles and create-checkout-session answers
CheckoutSessionSettles(o) ==
  /\ entry = "create-checkout-session"
  /\ pc = "stripe"
  /\ response' = IF o.settled = "resolved"
                 THEN <<JsonResponse(200, [sessionId |-> o.id, url |-> o.url])>>
                 ELSE <<checkoutSessionCatch(o)>>
  /\ stripeSettled' = <<o>>
  /\ pc' = "done"
  /\ UNCHANGED <<now, other, requests, stripeCalls, entry, arg, ret, lines, pipelineVars,
                 requestVars>>

NextPayment ==
  \/ CallPaymentIntent
  \/ CallCheckoutSession
  \/ \E o \in StripeOutcomes : PaymentIntentSettles(o)
  \/ \E o \in StripeOutcomes : CheckoutSessionSettles(o)

SpecPayment == InitPayment /\ [][NextPayment]_vars

\* ------------------------------------------------------------ properties
\* a literal address
A_X == <<"a","@","x",".","c","o">>
B_X == <<"b","@","x",".","c","o">>
A_Y == <<"a","@","y",".","c","o">>
ADOT_X == <<"a",".","@","x",".","c","o">>
X_CO == <<"x",".","c","o">>
Y_CO == <<"y",".","c","o">>

\* what a line becomes: trimmed, sanitized, lower-cased
Normalized(line) == toLowerCase(sanitizeEmail(trim(line)))

\* the normalized lines of the upload, by line number (\o makes TLC hold the
\* sequence as a tuple of values rather than recompute each element at each use)
NormalizedLines == [i \in DOMAIN lines |-> Normalized(lines[i])] \o <<>>

\* the candidates of the upload: its distinct non-blank normalized lines
\* (N is NormalizedLines)
CandidatesOf(N) == Range(N) \ {<<>>}
Candidates == CandidatesOf(NormalizedLines)

\* the entries of a report with a given email
EntriesOf(r, c) == {j \in DOMAIN r.emails : r.emails[j].email = c}

\* C1: in every report validateEmails returns, total = valid + invalid, and
\* percentage is 0 when total is 0 and 100 * valid / total otherwise
C1_TotalAndPercentage ==
  \A i \in DOMAIN result :
    LET r == result[i]
    IN  /\ r.total = r.valid + r.invalid
        /\ r.total = 0 => r.percentage = <<0, 1>>
        /\ r.total # 0 =>
             /\ r.percentage[2] > 0
             /\ r.percentage[1] * r.total = 100 * r.valid * r.percentage[2]

\* a report of two emails of which one is valid: 50 percent
C1_Witness ==
  /\ result # <<>>
  /\ result[1].total = 2
  /\ result[1].valid = 1
  /\ result[1].invalid = 1
  /\ result[1].percentage = <<50, 1>>

C3_LimitRejectsWholeBatch ==
  LET n == Cardinality(Candidates)
  IN  /\ n > 300 =>
           /\ resolveMxCalls = <<>>
           /\ result = <<>>
           /\ response # <<>> => response = <<ErrorResponse(400, LimitError)>>
           /\ pc = "done" => response # <<>>
      /\ n \in 1..300 =>
           /\ response # <<ErrorResponse(400, LimitError)>>
           /\ pc = "done" => response[1].status = 200

\* the upload of 301 addresses has been answered
C3_Witness ==
  /\ Len(lines) = 301
  /\ Cardinality(Candidates) = 301
  /\ pc = "done"
  /\ response = <<ErrorResponse(400, LimitError)>>

\* the line number at which a candidate is first seen (N is NormalizedLines)
FirstSeen(N, c) ==
  CHOOSE i \in DOMAIN N : N[i] = c /\ \A j \in 1..(i - 1) : N[j] # c

\* C4: the report lists the emails in the order in which the upload first
\* shows them, whatever the order in which lookups and timeouts complete
C4_FirstSeenOrder ==
  \A i \in DOMAIN result :
    LET r == result[i]
        N == NormalizedLines
    IN  /\ \A j \in DOMAIN r.emails : r.emails[j].email \in CandidatesOf(N)
        /\ \A j \in 1..(Len(r.emails) - 1) :
             FirstSeen(N, r.emails[j].email) < FirstSeen(N, r.emails[j + 1].email)

\* two domains, the second line's lookup committed before the first line's
C4_Witness ==
  /\ result # <<>>
  /\ lines = <<A_Y, A_X>>
  /\ MapKeys(domainValidation) = <<X_CO, Y_CO>>
  /\ result[1].emails[1].email = A_Y

\* the number of calls of dns.resolveMx with domain d
CallsOf(d) == Cardinality({k \in DOMAIN resolveMxCalls : resolveMxCalls[k] = d})

\* the domains of the candidates that pass format classification
FormatValidDomains ==
  {getDomain(c) : c \in {x \in Candidates : validateEmailFormat(x) = null}}

\* validateEmails has started its lookups
LookupsStarted == pc = "resolving" \/ result # <<>>

\* C5: one lookup is started for each distinct domain of format-valid
\* candidates, however many share it, and none is started a second time
C5_OneLookupPerDomain ==
  /\ \A d \in Range(resolveMxCalls) : CallsOf(d) = 1
  /\ LookupsStarted =>
       LET valid == FormatValidDomains
       IN  \A d \in valid : CallsOf(d) = 1

\* two addresses of one domain, whose single lookup failed and whose timeout
\* fired after it
C5_Witness ==
  /\ pc = "done"
  /\ emails = <<A_X, B_X>>
  /\ resolveMxCalls = <<X_CO>>
  /\ mx[X_CO].kind = "error"
  /\ timer[X_CO] = "fired"

\* C6: a lookup is started only for the domain of a candidate that passed
\* format classification; a candidate that failed it keeps its format status
\* whatever the lookups return
C6_FormatFailureShortCircuits ==
  /\ LET valid == FormatValidDomains
     IN  /\ \A d \in Range(resolveMxCalls) : d \in valid
         /\ valid = {} => resolveMxCalls = <<>>
  /\ \A i \in DOMAIN result :
       \A j \in DOMAIN result[i].emails :
         LET e == result[i].emails[j]
             formatStatus == validateEmailFormat(e.email)
         IN  formatStatus # null => e.status = formatStatus

\* a malformed address of a domain whose lookup, started for another
\* address, found MX records
C6_Witness ==
  /\ result # <<>>
  /\ emails = <<ADOT_X, A_X>>
  /\ mx[X_CO] = Records(1)
  /\ result[1].emails[1].status = INVALID_CHARACTER_IN_SEQUENCE
  /\ result[1].emails[2].status = SUCCESS

\* C7: the committed outcome of a domain is that of the racer that settled
\* first, the lookup or the timeout, and what settles later never replaces it
C7_FirstResultWins ==
  \A d \in DOMAIN race :
    /\ winner[d] = "none" =>
         race[d] = "pending" /\ ~MapHas(domainValidation, d)
    /\ winner[d] = "timeout" =>
         /\ race[d] = DNS_QUERY_TIMEOUT
         /\ MapHas(domainValidation, d)
         /\ MapGet(domainValidation, d) = DNS_QUERY_TIMEOUT
    /\ winner[d] = "lookup" =>
         /\ race[d] = dnsStatus(mx[d])
         /\ MapHas(domainValidation, d)
         /\ MapGet(domainValidation, d) = dnsStatus(mx[d])

\* the timeout fired, then the lookup found MX records
C7_Witness ==
  /\ X_CO \in DOMAIN race
  /\ winner[X_CO] = "timeout"
  /\ mx[X_CO] = Records(1)
  /\ MapGet(domainValidation, X_CO) = DNS_QUERY_TIMEOUT

\* the position of the '@' of a string that has one
AtPos(s) == CHOOSE i \in DOMAIN s : s[i] = "@"

\* the verdict of the first matching rule of the ordered list
FirstMatchingRule(s) ==
  LET ats == Cardinality({i \in DOMAIN s : s[i] = "@"})
      loc == SubSeq(s, 1, AtPos(s) - 1)
      dom == SubSeq(s, AtPos(s) + 1, Len(s))
  IN  IF ats = 0 THEN AT_SIGN_NOT_FOUND
      ELSE IF ats > 1 THEN INVALID_CHARACTER_IN_SEQUENCE
      ELSE IF Len(s) > 254 THEN INVALID_ADDRESS_LENGTH
      ELSE IF \E i \in 1..(Len(s) - 1) : SubSeq(s, i, i + 1) = <<".", ".">>
           THEN DOUBLE_DOT_SEQUENCE
      ELSE IF loc = <<>> \/ Len(loc) > 64 THEN INVALID_LOCAL_PART_LENGTH
      ELSE IF \/ \E i \in DOMAIN loc : loc[i] \notin LocalPartChars
              \/ loc[1] = "."
              \/ loc[Len(loc)] = "."
           THEN INVALID_CHARACTER_IN_SEQUENCE
      ELSE IF \/ dom = <<>>
              \/ \A i \in DOMAIN dom : dom[i] # "."
              \/ \E i \in DOMAIN dom : dom[i] \notin DomainChars
              \/ dom[1] \in {".", "-"}
              \/ dom[Len(dom)] \in {".", "-"}
           THEN DOMAIN_PART_COMPLIANCY_FAILURE
      ELSE null

\* C8: for every non-empty string validateEmailFormat returns the verdict of
\* the first matching rule of the ordered list
C8_FirstMatchingRuleWins ==
  \A i \in DOMAIN ret : arg # <<>> => ret[i] = FirstMatchingRule(arg)

\* 255 characters without an '@': the '@' rule comes before the length rule
C8_Witness ==
  /\ ret = <<AT_SIGN_NOT_FOUND>>
  /\ Len(arg) = 255

\* the status of a lookup outcome, as the claim tabulates it
OutcomeStatus(o) ==
  CASE o.kind = "records" /\ o.n >= 1 -> SUCCESS
    [] o.kind = "records" /\ o.n = 0 -> DOMAIN_HAS_NULL_MX
    [] o.kind = "error" /\ o.code \in {"ENOTFOUND", "ENODATA"} -> DOMAIN_DOES_NOT_EXIST
    [] o.kind = "error" /\ o.code \notin {"ENOTFOUND", "ENODATA"} -> DNS_CONNECTION_FAILURE

\* C9: the status of a format-valid candidate is that of its domain's lookup
\* outcome, or DnsQueryTimeout when the timeout came first
C9_StatusFromLookupOutcome ==
  \A i \in DOMAIN result :
    \A j \in DOMAIN result[i].emails :
      LET e == result[i].emails[j]
          d == getDomain(e.email)
      IN  validateEmailFormat(e.email) = null =>
            /\ d \in DOMAIN winner
            /\ winner[d] \in {"lookup", "timeout"}
            /\ winner[d] = "timeout" => e.status = DNS_QUERY_TIMEOUT
            /\ winner[d] = "lookup" => e.status = OutcomeStatus(mx[d])

\* a lookup rejected with ENODATA: DomainDoesNotExist
C9_Witness ==
  /\ result # <<>>
  /\ emails = <<A_X>>
  /\ mx[X_CO] = Rejected("ENODATA")
  /\ winner[X_CO] = "lookup"
  /\ result[1].emails[1].status = DOMAIN_DOES_NOT_EXIST

\* the number of entries of a report with a given valid flag
EntriesWithValid(r, v) == Cardinality({j \in DOMAIN r.emails : r.emails[j].valid = v})

\* C10: an entry is valid exactly when its status is Success or
\* ServerIsCatchAll; every other entry is not valid and counted in invalid
C10_ValidIffPassStatus ==
  \A i \in DOMAIN result :
    LET r == result[i]
    IN  /\ \A j \in DOMAIN r.emails :
             r.emails[j].valid = (r.emails[j].status \in {SUCCESS, SERVER_IS_CATCH_ALL})
        /\ r.valid = EntriesWithValid(r, TRUE)
        /\ r.invalid = EntriesWithValid(r, FALSE)
        /\ r.invalid = Len(r.emails) - r.valid

\* a report with a valid entry and one whose domain has no MX record
C10_Witness ==
  /\ result # <<>>
  /\ Len(result[1].emails) = 2
  /\ result[1].emails[1].status = SUCCESS
  /\ result[1].emails[1].valid
  /\ result[1].emails[2].status = DOMAIN_HAS_NULL_MX
  /\ ~result[1].emails[2].valid
  /\ result[1].valid = 1
  /\ result[1].invalid = 1

\* the number of candidates of the upload
CandidateCount == Cardinality(Candidates)

ThrownDomains == {d \in DOMAIN mx : mx[d] = thrown}

\* C12 (as stated): when the resolver throws for the domain of a candidate, the
\* request still ends with a 200 report, in which that candidate is
\* UnhandledException and not valid, and every candidate of another domain has
\* the status of its own domain's outcome
C12_FaultGivesUnhandledException ==
  (pc = "done" /\ ThrownDomains # {}) =>
    /\ result # <<>>
    /\ response = <<JsonResponse(200, result[1])>>
    /\ \A j \in DOMAIN result[1].emails :
         LET e == result[1].emails[j]
         IN  validateEmailFormat(e.email) = null =>
               IF getDomain(e.email) \in ThrownDomains
               THEN e.status = UNHANDLED_EXCEPTION /\ ~e.valid
               ELSE e.status = MapGet(domainValidation, getDomain(e.email))

\* the statuses of a lookup that did not answer: not found, connection
\* failure, timeout
LookupFailures == {DOMAIN_DOES_NOT_EXIST, DNS_CONNECTION_FAILURE, DNS_QUERY_TIMEOUT}

\* the domains whose race ended in one of them
FailedDomains == {d \in DOMAIN race : race[d] \in LookupFailures}

\* C13: a lookup that ends in not-found, connection failure or timeout does
\* not abort the batch: once every race has settled Promise.all has resolved
\* (every domain has its entry, which is all the report waits for),
\* the request ends with a 200 report and with no other response, and in it
\* a candidate of another domain whose own lookup found MX records first is
\* Success and valid
C13_LookupFailureIsLocal ==
  /\ (pc = "resolving" /\ (\A d \in DOMAIN race : race[d] # "pending"))
       => \A d \in Range(MapKeys(domainMap)) : MapHas(domainValidation, d)
  /\ (FailedDomains # {} /\ response # <<>>)
       => /\ result # <<>>
          /\ response = <<JsonResponse(200, result[1])>>
          /\ Len(result[1].emails) = Len(emails)
  /\ \A i \in DOMAIN result :
       \A j \in DOMAIN result[i].emails :
         LET e == result[i].emails[j]
             d == getDomain(e.email)
         IN  (/\ validateEmailFormat(e.email) = null
              /\ FailedDomains \ {d} # {}
              /\ winner[d] = "lookup"
              /\ mx[d] = Records(1))
               => (e.status = SUCCESS /\ e.valid)

\* a report on two domains: the lookup of the first timed out, then the
\* lookup of the second found MX records
C13_Witness ==
  /\ result # <<>>
  /\ emails = <<A_X, A_Y>>
  /\ race[X_CO] = DNS_QUERY_TIMEOUT
  /\ MapKeys(domainValidation) = <<X_CO, Y_CO>>
  /\ mx[Y_CO] = Records(1)
  /\ response[1].status = 200
  /\ result[1].emails[1].status = DNS_QUERY_TIMEOUT
  /\ result[1].emails[2].status = SUCCESS

BlankLine(line) ==
  \A i \in DOMAIN line : line[i] \in Whitespace \cup DangerousChars \cup ControlChars

\* the line numbers of the upload that are not blank
NonBlankLines == {i \in DOMAIN lines : ~BlankLine(lines[i])}

\* C15: an empty or whitespace-only line, or one that is empty once the
\* dangerous characters are stripped, gives no candidate: every candidate
\* comes from a line that is not blank, none is the empty string, and total,
\* valid and invalid count only what the non-blank lines give
C15_BlankLinesGiveNoCandidate ==
  pc # "request" =>
    LET N == NormalizedLines
        fromNonBlank == {N[i] : i \in NonBlankLines}
    IN  /\ <<>> \notin Range(emails)
        /\ Range(emails) = fromNonBlank
        /\ NonBlankLines = {} => (result = <<>> /\ response # <<>> /\ response[1].status = 400)
        /\ \A r \in DOMAIN result :
             /\ result[r].total = Cardinality(fromNonBlank)
             /\ result[r].valid + result[r].invalid = Cardinality(fromNonBlank)
             /\ \A j \in DOMAIN result[r].emails : result[r].emails[j].email # <<>>

\* a line of stripped characters only, then an address: a report on one email
C15_Witness ==
  /\ lines = << <<"<", ">">>, <<"a","@","x",".","c","o">> >>
  /\ emails = <<A_X>>
  /\ result # <<>>
  /\ result[1].total = 1
  /\ result[1].valid + result[1].invalid = 1

\* the characters sanitizeEmail removes wherever they stand
Removed == {"<", ">", "\"", "'", ";", "\\", "\r", "\n", "\t"}

\* the positions of s that sanitizeEmail keeps: those of the characters not
\* removed, from the first to the last of them that is not a blank
KeptPositions(s) ==
  LET kept == {i \in DOMAIN s : s[i] \notin Removed}
      solid == {i \in kept : s[i] # " "}
  IN  {i \in kept : (\E a \in solid : a <= i) /\ (\E b \in solid : i <= b)}

\* the n-th smallest element of a set of positions
Nth(K, n) == CHOOSE i \in K : Cardinality({j \in K : j <= i}) = n

\* C16: for a string, sanitizeEmail returns the characters that are none of
\* < > " ' ; backslash, carriage return, newline, tab, in their order and
\* without the blanks before the first and after the last of them; for the
\* empty string and for a value that is not a string it returns ''
C16_SanitizeRemovesAndTrims ==
  ret # <<>> =>
    LET r == ret[1]
    IN  IF arg.type # "string" \/ arg.chars = <<>> THEN r = <<>>
        ELSE LET K == KeptPositions(arg.chars)
             IN  /\ Len(r) = Cardinality(K)
                 /\ \A n \in DOMAIN r : r[n] = arg.chars[Nth(K, n)]

\* the call sanitizeEmail(' <a\tB; ') has returned 'aB'
C16_Witness ==
  /\ ret = << <<"a", "B">> >>
  /\ arg.type = "string"
  /\ Len(arg.chars) = 5
  /\ arg.chars[1] = " "
  /\ arg.chars[2] = "<"
  /\ arg.chars[4] = "\t"

\* C17: every email of a report is the sanitized candidate and not the raw
\* line: a candidate of processCSV, not empty, without upper-case letters,
\* without whitespace at either end and without any of the characters
\* < > " ' ; backslash, carriage return, newline, tab
C17_ReportedEmailsAreSanitized ==
  \A r \in DOMAIN result :
    \A j \in DOMAIN result[r].emails :
      LET e == result[r].emails[j].email
      IN  /\ e \in Range(emails)
          /\ e # <<>>
          /\ \A i \in DOMAIN e : e[i] \notin Removed /\ e[i] \notin Range(UpperSeq)
          /\ e[1] \notin {" ", "\t", "\r", "\n"}
          /\ e[Len(e)] \notin {" ", "\t", "\r", "\n"}

\* a line with an upper-case letter, a stripped character and a blank at its
\* end, reported as the address it stands for
C17_Witness ==
  /\ lines = << <<"A","<","@","x",".","c","o"," ">> >>
  /\ result # <<>>
  /\ Len(result[1].emails) = 1
  /\ result[1].emails[1].email = <<"a","@","x",".","c","o">>

\* C18: the skipped field of every 200 response with a report is 0: the list
\* the handler passes to validateEmails is never longer than what
\* validateEmails keeps, and the report has an entry for each of its elements
C18_SkippedIsZero ==
  \A k \in DOMAIN response :
    (response[k].status = 200 /\ response[k].body # <<>>) =>
      LET body == response[k].body[1]
      IN  /\ body.skipped = 0
          /\ Len(emails) <= 300
          /\ Len(body.emails) = Len(emails)
          /\ body.total = Len(emails)

\* the 200 response to an upload of exactly 300 distinct addresses
C18_Witness ==
  /\ response # <<>>
  /\ response[1].status = 200
  /\ Len(lines) = 300
  /\ Len(emails) = 300
  /\ response[1].body[1].skipped = 0
  /\ response[1].body[1].total = 300

\* the names of the headers set on res
HeaderNames == {h[1] : h \in headers}

\* C19: every response of the handler, whatever the method and the outcome
\* (200, 400, 405, 413, 500, the answer to OPTIONS), is sent after the five
\* security headers and the CORS headers have been set, with their values
C19_HeadersOnEveryResponse ==
  (response # <<>> \/ pc # "start") =>
    /\ { "X-Content-Type-Options", "X-Frame-Options", "X-XSS-Protection",
          "Referrer-Policy", "Content-Security-Policy",
          "Access-Control-Allow-Origin", "Access-Control-Allow-Methods",
          "Access-Control-Allow-Headers" } \subseteq HeaderNames
    /\ <<"X-Content-Type-Options", "nosniff">> \in headers
    /\ <<"X-Frame-Options", "DENY">> \in headers
    /\ <<"Access-Control-Allow-Origin", "*">> \in headers
    /\ \A k \in DOMAIN response : response[k].status \in {200, 400, 405, 413, 500}

\* the 500 response to a form without a file part, with its headers
C19_Witness ==
  /\ response # <<>>
  /\ response[1].status = 500
  /\ method = "POST"
  /\ ~fileReceived
  /\ "Content-Security-Policy" \in HeaderNames
  /\ "Access-Control-Allow-Origin" \in HeaderNames

\* C20: as soon as the sizes of the data chunks of the file add up to more
\* than 5MB the answer is 413 'File too large. Maximum size is 5MB', and it
\* stays the answer whatever data and finish events follow: no line is
\* processed, no report made, no lookup started; a file that stays within
\* 5MB is never answered with 413
C20_FileTooLarge ==
  /\ fileSizeExceeded <=> fileSize > 5 * 1024 * 1024
  /\ fileSizeExceeded =>
       /\ response = <<ErrorResponse(413, "File too large. Maximum size is 5MB")>>
       /\ parsePromise = "rejected"
       /\ pc = "done"
       /\ emails = <<>>
       /\ result = <<>>
       /\ resolveMxCalls = <<>>
  /\ \A k \in DOMAIN response :
       response[k].status = 413 => (fileSizeExceeded /\ fileSize > 5 * 1024 * 1024)

\* a first chunk was kept, the second took the file one byte past the limit,
\* and the finish event has come since: the answer is still 413
C20_Witness ==
  /\ fileSizeExceeded
  /\ fileSize = 5 * 1024 * 1024 + 1
  /\ Len(lines) = 1
  /\ events = <<>>
  /\ response # <<>>
  /\ response[1].status = 413

\* the file part of the upload was refused for its name
RefusedForName ==
  /\ response # <<>>
  /\ response[1].error = "Please upload a valid CSV file"

\* C21 (as stated): an upload whose filename does not end in .csv is answered
\* with 400 'Please upload a valid CSV file', not with a server error, and
\* none of its lines is processed
C21_NotCsvIsBadRequest ==
  RefusedForName =>
    /\ response[1].status = 400
    /\ lines = <<>>
    /\ emails = <<>>
    /\ result = <<>>
    /\ resolveMxCalls = <<>>

\* C22 (as stated): once an address has made 10 requests within a minute, a
\* further request in that minute is answered with HTTP 429 and not processed
C22_RateLimited ==
  (requests > RATE_LIMIT /\ response # <<>>) =>
    /\ response[1].status = 429
    /\ result = <<>>
    /\ resolveMxCalls = <<>>
\* ---- the payment handlers
\* the value of a string of decimal digits
RECURSIVE decimalValue(_)
decimalValue(digits) ==
  IF digits = <<>> THEN 0
  ELSE 10 * decimalValue(SubSeq(digits, 1, Len(digits) - 1))
         + (CHOOSE d \in 0..9 : DigitSeq[d + 1] = digits[Len(digits)])

\* the request is a POST with a body, handled by create-payment-intent
PaymentIntentPost ==
  /\ entry = "create-payment-intent"
  /\ arg.method = "POST"
  /\ arg.hasBody

\* the entries create-payment-intent looks at: at most the first 300
FirstEntries ==
  IF arg.emails.type # "array" THEN <<>>
  ELSE SubSeq(arg.emails.items, 1,
              IF Len(arg.emails.items) < 300 THEN Len(arg.emails.items) ELSE 300)

\* an object with a non-empty email and a status equal to 'Valid' or 'Invalid'
QualifiesAsStated(item) ==
  /\ item.type = "item"
  /\ ~falsy(item.email)
  /\ item.status.type = "string"
  /\ item.status.chars \in {VALID, INVALID}

\* text is t with blanks before and after it
IsPadded(text, t) ==
  \E lo \in 1..(Len(text) + 1) :
    /\ lo + Len(t) - 1 <= Len(text)
    /\ SubSeq(text, lo, lo + Len(t) - 1) = t
    /\ \A i \in DOMAIN text : (i < lo \/ i >= lo + Len(t)) => text[i] \in Whitespace

\* an object whose email, as a string, has a character that is not a blank and
\* whose status, as a string, is 'Valid' or 'Invalid' between blanks
Qualifies(item) ==
  /\ item.type = "item"
  /\ \/ item.pad > 0
     \/ \E i \in DOMAIN stringOrEmpty(item.email) :
          stringOrEmpty(item.email)[i] \notin Whitespace
  /\ \/ IsPadded(stringOrEmpty(item.status), VALID)
     \/ IsPadded(stringOrEmpty(item.status), INVALID)

QualifyingAsStated == {i \in DOMAIN FirstEntries : QualifiesAsStated(FirstEntries[i])}
Qualifying == {i \in DOMAIN FirstEntries : Qualifies(FirstEntries[i])}

\* C23 (as stated): create-payment-intent calls Stripe only when one of the
\* first 300 entries is an object with a non-empty email and a status equal to
\* 'Valid' or 'Invalid'; emailCount is the number of such entries; when there
\* is none the response is 400 'No valid email data provided' and Stripe is
\* not called
C23_StripeOnlyForQualifyingAsStated ==
  (PaymentIntentPost /\ pc # "call") =>
    LET count == Cardinality(QualifyingAsStated)
    IN  /\ stripeCalls # <<>> =>
              /\ count >= 1
              /\ decimalValue(stripeCalls[1].metadata.emailCount) = count
        /\ count = 0 =>
              /\ stripeCalls = <<>>
              /\ response = <<ErrorResponse(400, NoValidEmailDataError)>>

\* C23 (amended): create-payment-intent calls Stripe only when one of the
\* first 300 entries is an object whose email, converted to a string and
\* trimmed, is not empty and whose status, converted and trimmed, is 'Valid'
\* or 'Invalid'; emailCount is the number of such entries; when a non-empty
\* array was submitted and there is none, the response is 400 'No valid email
\* data provided' and Stripe is not called; without a non-empty array the
\* response is 400 'Invalid email data' and Stripe is not called
C23_StripeOnlyForQualifying ==
  (PaymentIntentPost /\ pc # "call") =>
    LET count == Cardinality(Qualifying)
    IN  /\ stripeCalls # <<>> =>
              /\ count >= 1
              /\ Len(stripeCalls) = 1
              /\ decimalValue(stripeCalls[1].metadata.emailCount) = count
        /\ (count = 0 /\ FirstEntries # <<>>) =>
              /\ stripeCalls = <<>>
              /\ response = <<ErrorResponse(400, NoValidEmailDataError)>>
        /\ FirstEntries = <<>> =>
              /\ stripeCalls = <<>>
              /\ response = <<ErrorResponse(400, InvalidEmailDataError)>>

\* Stripe was called for two entries, one of them with a status written with
\* a blank before it
C23_Witness ==
  /\ PaymentIntentPost
  /\ stripeCalls # <<>>
  /\ stripeCalls[1].metadata.emailCount = <<"2">>
  /\ Len(FirstEntries) = 2
  /\ FirstEntries[2].status = JsString(<<" ">> \o VALID)
\* the call to the Stripe API has failed and the handler has answered
StripeFailed ==
  /\ entry \in {"create-payment-intent", "create-checkout-session"}
  /\ pc = "done"
  /\ stripeSettled # <<>>
  /\ stripeSettled[1].settled = "rejected"

\* C24 (as stated): when the Stripe call of the checkout-session or of the
\* payment-intent handler fails with a StripeCardError the response is 400 with
\* the Stripe error message, for any other failure it is 500; in both cases the
\* body has an error and neither a sessionId nor a clientSecret
C24_StripeFailureResponse ==
  StripeFailed =>
    /\ response[1].status = IF stripeSettled[1].type = "StripeCardError" THEN 400 ELSE 500
    /\ stripeSettled[1].type = "StripeCardError" =>
          response[1].error = stripeSettled[1].message
    /\ response[1].error # ""
    /\ response[1].body = <<>>
\* ---- termination
\* the stages of an invocation, in order
StageRank(stage) ==
  CASE stage = "request" -> 0
    [] stage = "resolving" -> 1
    [] stage = "done" -> 2

\* C25: every invocation of the pipeline eventually reaches a terminal state
\* (a report or a rejection), also when no MX lookup ever settles, and no
\* stage is entered twice
C25_TerminatesAndNeverGoesBack ==
  /\ <>(pc = "done" /\ (result # <<>> \/ response # <<>>))
  /\ [][pc' # pc => StageRank(pc') > StageRank(pc)]_vars

\* a report was made although none of the lookups has settled
C25_Witness ==
  /\ pc = "done"
  /\ result # <<>>
  /\ Len(resolveMxCalls) = 2
  /\ \A d \in DOMAIN mx : mx[d] = pending
\* ---- time
\* the time the resolving stage began at: that of the first call of checkMXRecords
StageStart == started[resolveMxCalls[1]]

\* C26: all the lookups of a batch, each with its own timeout, are started
\* before any of them is awaited, and the resolving stage ends at the latest
\* DNS_TIMEOUT_MS after it started, whatever the number of domains
C26_ResolvingTakesOneTimeout ==
  (pc \in {"resolving", "done"} /\ resolveMxCalls # <<>>) =>
    /\ Range(resolveMxCalls) = Range(MapKeys(domainMap))
    /\ \A d \in Range(resolveMxCalls) : started[d] = StageStart
    /\ now <= StageStart + DNS_TIMEOUT_MS

\* both lookups of a batch of two domains timed out, and the report was made
\* one timeout after the stage began
C26_Witness ==
  /\ pc = "done"
  /\ result # <<>>
  /\ Len(resolveMxCalls) = 2
  /\ \A d \in DOMAIN winner : winner[d] = "timeout"
  /\ StageStart > 0
  /\ now = StageStart + DNS_TIMEOUT_MS
\* ---- two invocations
\* what the race of domain d of the running invocation has to be, given what
\* its own lookup and its own timer did
OwnOutcome(d) ==
  CASE winner[d] = "none" -> "pending"
    [] winner[d] = "timeout" -> DNS_QUERY_TIMEOUT
    [] winner[d] = "lookup" -> OutcomeStatus(mx[d])

\* C27: two batches, one after the other or interleaved, share no state: each
\* starts its own lookup for every domain of its format-valid candidates, also
\* for one the other batch has looked up, and its report is made of its own
\* candidates with the outcomes of its own lookups
C27_BatchesShareNoState ==
  other # <<>> =>
    /\ LookupsStarted =>
         LET valid == FormatValidDomains
         IN  /\ Range(resolveMxCalls) = valid
             /\ Len(resolveMxCalls) = Cardinality(valid)
             /\ DOMAIN race = valid
    /\ \A d \in DOMAIN race :
         /\ race[d] = OwnOutcome(d)
         /\ MapHas(domainValidation, d) => MapGet(domainValidation, d) = race[d]
    /\ \A i \in DOMAIN result :
         LET r == result[i]
             N == NormalizedLines
         IN  /\ {r.emails[j].email : j \in DOMAIN r.emails} = CandidatesOf(N)
             /\ \A j \in DOMAIN r.emails :
                  LET e == r.emails[j]
                      formatStatus == validateEmailFormat(e.email)
                  IN  e.status = IF formatStatus # null THEN formatStatus
                                 ELSE OwnOutcome(getDomain(e.email))

\* the running batch reports DomainDoesNotExist for a@x.co while the other
\* batch, still resolving, has found MX records for the same domain
C27_Witness ==
  /\ other # <<>>
  /\ other[1].pc = "resolving"
  /\ MapHas(other[1].domainValidation, X_CO)
  /\ MapGet(other[1].domainValidation, X_CO) = SUCCESS
  /\ result # <<>>
  /\ lines = <<A_X>>
  /\ result[1].emails[1].status = DOMAIN_DOES_NOT_EXIST
\* ---- the join before the third pass
\* the number of entries of domainValidation for domain d
EntryCount(d) == Cardinality({i \in DOMAIN domainValidation : domainValidation[i].key = d})

\* C28: aggregation starts only after every started race has committed: at
\* the third pass every domain grouped in the first pass has exactly one entry
\* in domainValidation, a format-valid candidate's status is its domain's
\* outcome, and neither the UnhandledException fallback nor the null-domain
\* DomainPartCompliancyFailure fallback is taken
C28_AggregationAfterEveryCommit ==
  /\ \A i \in DOMAIN emails :
       validateEmailFormat(emails[i]) = null => getDomain(emails[i]) # <<>>
  /\ result # <<>> =>
       /\ DOMAIN race = Range(MapKeys(domainMap))
       /\ \A d \in DOMAIN race :
            /\ race[d] # "pending"
            /\ EntryCount(d) = 1
            /\ MapGet(domainValidation, d) = race[d]
       /\ \A j \in DOMAIN result[1].emails :
            LET e == result[1].emails[j]
                formatStatus == validateEmailFormat(e.email)
            IN  /\ e.status # UNHANDLED_EXCEPTION
                /\ formatStatus = null =>
                     /\ getDomain(e.email) \in DOMAIN race
                     /\ e.status = race[getDomain(e.email)]
                /\ e.status = DOMAIN_PART_COMPLIANCY_FAILURE =>
                     formatStatus = DOMAIN_PART_COMPLIANCY_FAILURE

\* a report of two domains, one settled by its lookup and one by its timeout
C28_Witness ==
  /\ result # <<>>
  /\ Len(domainMap) = 2
  /\ \E d \in DOMAIN winner : winner[d] = "lookup"
  /\ \E d \in DOMAIN winner : winner[d] = "timeout"
\* ---- the statuses of a report
\* the statuses that ValidationStatus declares and no code path assigns
NeverEmitted ==
  {SERVER_IS_CATCH_ALL, DUPLICATE, CATCH_ALL_VALIDATION_TIMEOUT, DOMAIN_IS_MISCONFIGURED}

\* C29: Success is the only status with valid = true that a report contains,
\* and no report contains ServerIsCatchAll, Duplicate,
\* CatchAllValidationTimeout or DomainIsMisconfigured
C29_SuccessIsTheOnlyPassStatus ==
  \A i \in DOMAIN result : \A j \in DOMAIN result[i].emails :
    LET e == result[i].emails[j]
    IN  /\ e.valid => e.status = SUCCESS
        /\ e.status \notin NeverEmitted

\* a report with a valid entry and with an entry whose lookup was refused
C29_Witness ==
  /\ result # <<>>
  /\ \E j \in DOMAIN result[1].emails :
       result[1].emails[j].valid /\ result[1].emails[j].status = SUCCESS
  /\ \E d \in DOMAIN mx : mx[d] = Rejected("ECONNREFUSED") /\ winner[d] = "lookup"
\* ---- sanitizing what is sanitized
\* C30: sanitizeEmail is idempotent: what it returns, it returns unchanged;
\* hence every candidate of processCSV is a fixed point of sanitizeEmail and of
\* toLowerCase, and processCSV of its own output, one candidate per line, is
\* the same list
C30_SanitizeIsIdempotent ==
  /\ \A i \in DOMAIN ret : sanitizeEmail(ret[i]) = ret[i]
  /\ \A i \in DOMAIN emails :
       /\ sanitizeEmail(emails[i]) = emails[i]
       /\ toLowerCase(emails[i]) = emails[i]
  /\ processCSV(emails) = emails

\* the call sanitizeEmail('< a') has returned 'a': the blank was not at an end
\* of the string before the '<' was removed
C30_Witness ==
  /\ entry = "sanitizeEmail"
  /\ arg = JsString(<<"<", " ", "a">>)
  /\ ret = << <<"a">> >>
====
